---- MODULE Spec2Model ----
(***************************************************************************)
(* Model of the legacy_modernizer core: the ProjectIR schema and its       *)
(* validation (core/ir_schema.py), the response normalizer and the         *)
(* modernization response parser (agents/*.py) and the batch driver        *)
(* (app.py).                                                               *)
(***************************************************************************)
EXTENDS Integers, Sequences, FiniteSets, TLC

VARIABLES
    payload,        \* a parsed JSON document handed to the schema validator
    validation,     \* outcome of ProjectIR.model_validate_json on payload
    raw,            \* the raw text of a model response
    cleaned,        \* outcome of _clean_json_response(raw)
    recleaned,      \* outcome of _clean_json_response on the text of cleaned
    analysis,       \* outcome of generate_structured_analysis on raw
    modernization,  \* outcome of _parse_modernization_response(raw)
    files_to_process,       \* app.py: the (filename, folder) of the files given
    idx,                    \* position of the file the loop is at, 0 before the first
    pc,                     \* where the batch loop of app.py is
    language,               \* locals of the loop body
    project_ir,
    modernization_result,
    comprehensive_docs,
    error,                  \* the exception on its way to the handlers
    all_results,            \* app.py: storage for results
    modernized_files,       \* path -> content
    documentation_files,    \* path -> content
    reported,               \* the st.error messages, as (position, label)
    llm_calls,              \* history: the model calls made, as (position, stage)
    attempted,              \* history: positions whose pipeline was started
    stages_ok,              \* history: positions whose three stages succeeded
    stored,                 \* history: the position each entry of all_results is of
    render_ir,          \* the ProjectIR handed to the renderers
    original_code,      \* the source text handed to the renderers
    modern_code,        \* the modernized text handed to the renderers
    summary_text,       \* the change summary handed to the renderers
    hash_seed,          \* this process's string hashing: the order a set of strings iterates in
    documentation,      \* result of generate_master_documentation
    earlier,            \* history: the result of the invocation before
    skeleton,           \* result of generate_code_skeleton
    markdown,           \* result of generate_markdown_from_ir
    revalidated         \* outcome of validating the serialized render_ir

validateVars == <<payload, validation>>
textVars == <<raw, cleaned, recleaned, analysis, modernization>>
localVars == <<language, project_ir, modernization_result, comprehensive_docs, error>>
storeVars == <<all_results, modernized_files, documentation_files>>
historyVars == <<reported, llm_calls, attempted, stages_ok, stored>>
batchVars == <<files_to_process, idx, pc, localVars, storeVars, historyVars>>
renderVars == <<render_ir, original_code, modern_code, summary_text, hash_seed,
                documentation, earlier, skeleton, markdown, revalidated>>
vars == <<validateVars, textVars, batchVars, renderVars>>

(***************************************************************************)
(* Bounds of the model.                                                    *)
(***************************************************************************)
MaxModules == 2
MaxFunctions == 2
MaxDebt == 2
MaxWs == 1
MaxFiles == 2

(***************************************************************************)
(* JSON values, as json.loads / pydantic see them: tagged trees.           *)
(***************************************************************************)
JStr(s) == [t |-> "str", v |-> s]
JNum(n) == [t |-> "num", v |-> n]
JArr(s) == [t |-> "arr", v |-> s]
JObj(f) == [t |-> "obj", v |-> f]
JNull == [t |-> "null", v |-> 0]

Has(j, k) == k \in DOMAIN j.v

(***************************************************************************)
(* Field validators of pydantic (v2, lax mode, extra keys ignored).        *)
(***************************************************************************)
\* `name: str = Field(...)`: required, must be a JSON string
StrField(j, k) == Has(j, k) /\ j.v[k].t = "str"

\* `description: Optional[str] = Field(None)`: absent, null or a string
OptStrField(j, k) == Has(j, k) => j.v[k].t \in {"str", "null"}

\* `modifiers: List[str] = Field(default_factory=list)`
StrListField(j, k) ==
    Has(j, k) => /\ j.v[k].t = "arr"
                 /\ \A i \in DOMAIN j.v[k].v : j.v[k].v[i].t = "str"

\* `type: Literal[...] = Field(...)`
LiteralField(j, k, allowed) == StrField(j, k) /\ j.v[k].v \in allowed

GetStr(j, k) == j.v[k].v

\* mutant: a null read as the empty string
GetOptNullAsEmpty(j, k) ==
    IF Has(j, k) /\ j.v[k].t = "str" THEN <<j.v[k].v>>
    ELSE IF Has(j, k) THEN <<"">> ELSE <<>>

\* Optional[str] as a sequence: <<>> is None, <<s>> is the string s
GetOpt(j, k) == IF Has(j, k) /\ j.v[k].t = "str" THEN <<j.v[k].v>> ELSE <<>>

GetStrList(j, k) ==
    IF Has(j, k) THEN [i \in DOMAIN j.v[k].v |-> j.v[k].v[i].v] ELSE <<>>

\* the elements of a list-valued field, <<>> when the key is absent
Items(j, k) == IF Has(j, k) THEN j.v[k].v ELSE <<>>

(***************************************************************************)
(* core/ir_schema.py                                                       *)
(***************************************************************************)
ModuleTypes == {"class", "module", "interface", "abstract_class"}
DebtCategories ==
    {"performance", "security", "maintainability", "scalability", "compatibility"}
DebtSeverities == {"low", "medium", "high", "critical"}

IOTypeValid(j) ==
    /\ j.t = "obj"
    /\ StrField(j, "name")
    /\ StrField(j, "type")
    /\ OptStrField(j, "description")

IOType(j) ==
    [name |-> GetStr(j, "name"),
     type |-> GetStr(j, "type"),
     description |-> GetOpt(j, "description")]

DecisionPointValid(j) ==
    /\ j.t = "obj"
    /\ StrField(j, "condition")
    /\ OptStrField(j, "description")

DecisionPoint(j) ==
    [condition |-> GetStr(j, "condition"),
     description |-> GetOpt(j, "description")]

\* List[IOType] with default_factory=list
IOTypeListField(j, k) ==
    Has(j, k) => /\ j.v[k].t = "arr"
                 /\ \A i \in DOMAIN j.v[k].v : IOTypeValid(j.v[k].v[i])

DecisionListField(j, k) ==
    Has(j, k) => /\ j.v[k].t = "arr"
                 /\ \A i \in DOMAIN j.v[k].v : DecisionPointValid(j.v[k].v[i])

\* mutant: the description of a function declared with min_length=1
FunctionDescriptionFieldNonEmpty(j) ==
    StrField(j, "description") /\ j.v["description"].v # ""

\* `description: str = Field(...)` of FunctionIR (line 23): required, any string
FunctionDescriptionField(j) == StrField(j, "description")

FunctionIRValid(j) ==
    /\ j.t = "obj"
    /\ StrField(j, "name")
    /\ FunctionDescriptionField(j)
    /\ IOTypeListField(j, "inputs")
    /\ IOTypeListField(j, "outputs")
    /\ StrListField(j, "modifiers")
    /\ StrListField(j, "side_effects")
    /\ DecisionListField(j, "decisions")
    /\ StrListField(j, "exceptions")
    /\ StrListField(j, "dependencies")
    /\ OptStrField(j, "business_logic")

FunctionIR(j) ==
    [name |-> GetStr(j, "name"),
     description |-> GetStr(j, "description"),
     inputs |-> [i \in DOMAIN Items(j, "inputs") |-> IOType(Items(j, "inputs")[i])],
     outputs |-> [i \in DOMAIN Items(j, "outputs") |-> IOType(Items(j, "outputs")[i])],
     modifiers |-> GetStrList(j, "modifiers"),
     side_effects |-> GetStrList(j, "side_effects"),
     decisions |-> [i \in DOMAIN Items(j, "decisions") |->
                        DecisionPoint(Items(j, "decisions")[i])],
     exceptions |-> GetStrList(j, "exceptions"),
     dependencies |-> GetStrList(j, "dependencies"),
     business_logic |-> GetOpt(j, "business_logic")]

FunctionListField(j, k) ==
    Has(j, k) => /\ j.v[k].t = "arr"
                 /\ \A i \in DOMAIN j.v[k].v : FunctionIRValid(j.v[k].v[i])

\* mutant: the module type declared `str` instead of `Literal[...]`
ModuleTypeFieldAnyString(j) == StrField(j, "type")

ModuleTypeField(j) == LiteralField(j, "type", ModuleTypes)

ModuleIRValid(j) ==
    /\ j.t = "obj"
    /\ StrField(j, "name")
    /\ ModuleTypeField(j)
    /\ StrField(j, "description")
    /\ StrListField(j, "imports")
    /\ FunctionListField(j, "functions")
    /\ IOTypeListField(j, "attributes")
    /\ StrListField(j, "design_patterns")

ModuleIR(j) ==
    [name |-> GetStr(j, "name"),
     type |-> GetStr(j, "type"),
     description |-> GetStr(j, "description"),
     imports |-> GetStrList(j, "imports"),
     functions |-> [i \in DOMAIN Items(j, "functions") |->
                        FunctionIR(Items(j, "functions")[i])],
     attributes |-> [i \in DOMAIN Items(j, "attributes") |->
                        IOType(Items(j, "attributes")[i])],
     design_patterns |-> GetStrList(j, "design_patterns")]

TechnicalDebtValid(j) ==
    /\ j.t = "obj"
    /\ LiteralField(j, "category", DebtCategories)
    /\ StrField(j, "description")
    /\ LiteralField(j, "severity", DebtSeverities)
    /\ StrField(j, "recommendation")

TechnicalDebt(j) ==
    [category |-> GetStr(j, "category"),
     description |-> GetStr(j, "description"),
     severity |-> GetStr(j, "severity"),
     recommendation |-> GetStr(j, "recommendation")]

\* mutant: `modules` declared with min_length=1
ModulesFieldNonEmpty(j) ==
    /\ Has(j, "modules")
    /\ j.v["modules"].t = "arr"
    /\ Len(j.v["modules"].v) >= 1
    /\ \A i \in DOMAIN j.v["modules"].v : ModuleIRValid(j.v["modules"].v[i])

\* `modules: List[ModuleIR] = Field(...)`: required, any length
ModulesField(j) ==
    /\ Has(j, "modules")
    /\ j.v["modules"].t = "arr"
    /\ \A i \in DOMAIN j.v["modules"].v : ModuleIRValid(j.v["modules"].v[i])

DebtListField(j, k) ==
    Has(j, k) => /\ j.v[k].t = "arr"
                 /\ \A i \in DOMAIN j.v[k].v : TechnicalDebtValid(j.v[k].v[i])

ProjectIRValid(j) ==
    /\ j.t = "obj"
    /\ StrField(j, "language")
    /\ StrField(j, "original_filename")
    /\ StrField(j, "suggested_filename")
    /\ StrField(j, "summary")
    /\ ModulesField(j)
    /\ DebtListField(j, "technical_debt")
    /\ StrListField(j, "dependencies")
    /\ StrListField(j, "modernization_priority")

ProjectIR(j) ==
    [language |-> GetStr(j, "language"),
     original_filename |-> GetStr(j, "original_filename"),
     suggested_filename |-> GetStr(j, "suggested_filename"),
     summary |-> GetStr(j, "summary"),
     modules |-> [i \in DOMAIN Items(j, "modules") |->
                        ModuleIR(Items(j, "modules")[i])],
     technical_debt |-> [i \in DOMAIN Items(j, "technical_debt") |->
                        TechnicalDebt(Items(j, "technical_debt")[i])],
     dependencies |-> GetStrList(j, "dependencies"),
     modernization_priority |-> GetStrList(j, "modernization_priority")]

\* the value standing for "no ProjectIR was produced"
NoIR == [language |-> "<none>"]

\* mutant: the validation error is swallowed and an empty model returned
model_validate_swallow(j) ==
    IF ProjectIRValid(j)
    THEN [status |-> "ok", ir |-> ProjectIR(j)]
    ELSE [status |-> "ok", ir |-> NoIR]

\* ProjectIR.model_validate_json on an already parsed document: the model
\* instance, or a ValidationError and no instance at all
model_validate(j) ==
    IF ProjectIRValid(j)
    THEN [status |-> "ok", ir |-> ProjectIR(j)]
    ELSE [status |-> "ValidationError", ir |-> NoIR]

(***************************************************************************)
(* The documents the validator is given: the JSON a model response may     *)
(* hold.  A document is a well-formed ProjectIR of some shape (nm modules   *)
(* of nf functions each, nd debt items) with at most one field replaced    *)
(* by something else: removed, null, a number, a list, or another string.  *)
(* Function f of a module has f-1 inputs, outputs and decisions; module m   *)
(* has m-1 attributes.                                                     *)
(***************************************************************************)
Shapes == [nm : 0..MaxModules, nf : 0..MaxFunctions, nd : 0..MaxDebt]

IRKeys == {"language", "original_filename", "suggested_filename", "summary",
           "modules", "technical_debt", "dependencies", "modernization_priority"}
ModuleKeys == {"name", "type", "description", "imports", "functions",
               "attributes", "design_patterns"}
FunctionKeys == {"name", "description", "inputs", "outputs", "modifiers",
                 "side_effects", "decisions", "exceptions", "dependencies",
                 "business_logic"}
IOTypeKeys == {"name", "type", "description"}
DecisionKeys == {"condition", "description"}
DebtKeys == {"category", "description", "severity", "recommendation"}

\* what a field may be replaced by; any other string is a JSON string
GenericVals == {"<absent>", "<null>", "<number>", "<list>"}

ReplacementVals(lvl, key) ==
    GenericVals \cup
    (CASE lvl = "module" /\ key = "type" -> ModuleTypes \cup {"enum", "Class"}
       [] lvl = "debt" /\ key = "category" -> DebtCategories \cup {"style"}
       [] lvl = "debt" /\ key = "severity" -> DebtSeverities \cup {"urgent"}
       [] lvl = "function" /\ key = "description" -> {""}
       [] OTHER -> {})

Replacement(lvl, m, f, x, key, val) ==
    [lvl |-> lvl, m |-> m, f |-> f, x |-> x, key |-> key, val |-> val]

\* the element a replacement names exists in a document of that shape
Applies(d) ==
    CASE d.lvl = "attribute" -> d.x <= d.m - 1
      [] d.lvl \in {"input", "output", "decision"} -> d.x <= d.f - 1
      [] OTHER -> TRUE

AllReplacements(sh) ==
    {Replacement("ir", 0, 0, 0, k, w) : k \in IRKeys, w \in GenericVals}
    \cup UNION {{Replacement("module", m, 0, 0, k, w) :
                    w \in ReplacementVals("module", k)} :
                m \in 1..sh.nm, k \in ModuleKeys}
    \cup UNION {{Replacement("attribute", m, 0, x, k, w) : w \in GenericVals} :
                m \in 1..sh.nm, x \in 1..sh.nm, k \in IOTypeKeys}
    \cup UNION {{Replacement("function", m, f, 0, k, w) :
                    w \in ReplacementVals("function", k)} :
                m \in 1..sh.nm, f \in 1..sh.nf, k \in FunctionKeys}
    \cup UNION {{Replacement(lvl, m, f, x, k, w) : w \in GenericVals, k \in IOTypeKeys} :
                lvl \in {"input", "output"}, m \in 1..sh.nm, f \in 1..sh.nf,
                x \in 1..sh.nf}
    \cup UNION {{Replacement("decision", m, f, x, k, w) : w \in GenericVals} :
                m \in 1..sh.nm, f \in 1..sh.nf, x \in 1..sh.nf,
                k \in DecisionKeys}
    \cup UNION {{Replacement("debt", m, 0, 0, k, w) :
                    w \in ReplacementVals("debt", k)} :
                m \in 1..sh.nd, k \in DebtKeys}

Replacements(sh) == {d \in AllReplacements(sh) : Applies(d)}

Encode(val) ==
    CASE val = "<null>" -> JNull
      [] val = "<number>" -> JNum(7)
      [] val = "<list>" -> JArr(<<>>)
      [] OTHER -> JStr(val)

At(D, lvl, m, f, x, key) ==
    {d \in D : d.lvl = lvl /\ d.m = m /\ d.f = f /\ d.x = x /\ d.key = key}

\* a JSON object with the given default members, as changed by D
MkObj(D, lvl, m, f, x, members) ==
    JObj([k \in {k \in DOMAIN members :
                    \A d \in At(D, lvl, m, f, x, k) : d.val # "<absent>"} |->
            IF At(D, lvl, m, f, x, k) = {}
            THEN members[k]
            ELSE Encode((CHOOSE d \in At(D, lvl, m, f, x, k) : TRUE).val)])

IOTypeJ(D, lvl, m, f, x) ==
    MkObj(D, lvl, m, f, x,
          [name |-> JStr("p" \o ToString(x)), type |-> JStr("int"),
           description |-> JStr("a parameter")])

DecisionJ(D, m, f, x) ==
    MkObj(D, "decision", m, f, x,
          [condition |-> JStr("c" \o ToString(x)), description |-> JStr("a branch")])

FunctionJ(D, m, f) ==
    MkObj(D, "function", m, f, 0,
          [name |-> JStr("f" \o ToString(f)),
           description |-> JStr("a function"),
           inputs |-> JArr([x \in 1..(f - 1) |-> IOTypeJ(D, "input", m, f, x)]),
           outputs |-> JArr([x \in 1..(f - 1) |-> IOTypeJ(D, "output", m, f, x)]),
           modifiers |-> JArr(<<JStr("public")>>),
           side_effects |-> JArr(<<>>),
           decisions |-> JArr([x \in 1..(f - 1) |-> DecisionJ(D, m, f, x)]),
           exceptions |-> JArr(<<JStr("IOError")>>),
           dependencies |-> JArr(<<>>),
           business_logic |-> JStr("rules")])

ModuleJ(D, sh, m) ==
    MkObj(D, "module", m, 0, 0,
          [name |-> JStr("m" \o ToString(m)),
           type |-> JStr("module"),
           description |-> JStr("a module"),
           imports |-> JArr(<<JStr("os")>>),
           functions |-> JArr([f \in 1..sh.nf |-> FunctionJ(D, m, f)]),
           attributes |-> JArr([x \in 1..(m - 1) |-> IOTypeJ(D, "attribute", m, 0, x)]),
           design_patterns |-> JArr(<<>>)])

DebtJ(D, i) ==
    MkObj(D, "debt", i, 0, 0,
          [category |-> JStr("security"),
           description |-> JStr("d" \o ToString(i)),
           severity |-> JStr("high"),
           recommendation |-> JStr("fix it")])

ProjectJ(D, sh) ==
    MkObj(D, "ir", 0, 0, 0,
          [language |-> JStr("python"),
           original_filename |-> JStr("main.py"),
           suggested_filename |-> JStr("order_service.py"),
           summary |-> JStr("an order system"),
           modules |-> JArr([m \in 1..sh.nm |-> ModuleJ(D, sh, m)]),
           technical_debt |-> JArr([i \in 1..sh.nd |-> DebtJ(D, i)]),
           dependencies |-> JArr(<<JStr("requests")>>),
           modernization_priority |-> JArr(<<JStr("types"), JStr("tests")>>)])

\* the replacement sets applied to a document of shape sh: none, or one
ReplacementSets(sh) == {{}} \cup {{d} : d \in Replacements(sh)}

(***************************************************************************)
(* Text.  A text is a sequence of lexemes whose concatenation is the       *)
(* Python string: the fence marker (three backticks), a newline, a space,  *)
(* a bare word, or the text of one complete JSON value.                    *)
(***************************************************************************)
Fence == "<fence>"
Newline == "\n"
Space == " "
Word == "json"

RECURSIVE Concat(_)
Concat(s) == IF s = <<>> THEN "" ELSE Head(s) \o Concat(Tail(s))

\* the JSON value each value lexeme is the text of
ModernizationMembers ==
    [modernized_code |-> JStr("print(1)"), filename |-> JStr("x.py"),
     changes_summary |-> JStr("typed")]

ObjectOf(keys) == JObj([k \in keys |-> ModernizationMembers[k]])

LexemeValue ==
    [lx \in {"{}", "{mc}", "{fn}", "{cs}", "{mc,fn}", "{mc,cs}", "{fn,cs}",
             "{mc,fn,cs}", "7", "[]", "null", "'text'", "'modernized_code'",
             "{mc,cs:fallback}", "[mc,fn,cs]",
             "{ir}", "{ir:0}",
             "{ir:enum}", "{ir:field}"} |->
        CASE lx = "{}" -> ObjectOf({})
          [] lx = "{mc}" -> ObjectOf({"modernized_code"})
          [] lx = "{fn}" -> ObjectOf({"filename"})
          [] lx = "{cs}" -> ObjectOf({"changes_summary"})
          [] lx = "{mc,fn}" -> ObjectOf({"modernized_code", "filename"})
          [] lx = "{mc,cs}" -> ObjectOf({"modernized_code", "changes_summary"})
          [] lx = "{fn,cs}" -> ObjectOf({"filename", "changes_summary"})
          [] lx = "{mc,fn,cs}" ->
                ObjectOf({"modernized_code", "filename", "changes_summary"})
          [] lx = "7" -> JNum(7)
          [] lx = "[]" -> JArr(<<>>)
          [] lx = "null" -> JNull
          [] lx = "'text'" -> JStr("text")
          [] lx = "'modernized_code'" -> JStr("modernized_code")
          [] lx = "{mc,cs:fallback}" ->
                JObj([modernized_code |-> JStr("print(1)"),
                      changes_summary |->
                          JStr("Modernization completed (no structured response)")])
          [] lx = "[mc,fn,cs]" ->
                JArr(<<JStr("modernized_code"), JStr("filename"),
                       JStr("changes_summary")>>)
          [] lx = "{ir}" -> ProjectJ({}, [nm |-> 1, nf |-> 1, nd |-> 1])
          [] lx = "{ir:0}" -> ProjectJ({}, [nm |-> 0, nf |-> 0, nd |-> 0])
          [] lx = "{ir:enum}" ->
                ProjectJ({Replacement("debt", 1, 0, 0, "severity", "urgent")},
                         [nm |-> 1, nf |-> 1, nd |-> 1])
          [] lx = "{ir:field}" ->
                ProjectJ({Replacement("function", 1, 1, 0, "description", "<absent>")},
                         [nm |-> 1, nf |-> 1, nd |-> 0])]

ValueLexemes == DOMAIN LexemeValue

\* the characters str.strip() removes, and json skips around a value
Whitespace == {Space, Newline}

RECURSIVE lstrip(_)
lstrip(s) == IF s # <<>> /\ Head(s) \in Whitespace THEN lstrip(Tail(s)) ELSE s

RECURSIVE rstrip(_)
rstrip(s) ==
    IF s # <<>> /\ s[Len(s)] \in Whitespace THEN rstrip(SubSeq(s, 1, Len(s) - 1)) ELSE s

strip(s) == rstrip(lstrip(s))

startswith(s, lx) == s # <<>> /\ s[1] = lx

\* str.split('\n'): the lines of s, at least one
RECURSIVE split(_)
split(s) ==
    IF \E i \in DOMAIN s : s[i] = Newline
    THEN LET i == CHOOSE i \in DOMAIN s :
                    s[i] = Newline /\ \A n \in 1..(i - 1) : s[n] # Newline
         IN <<SubSeq(s, 1, i - 1)>> \o split(SubSeq(s, i + 1, Len(s)))
    ELSE <<s>>

\* '\n'.join(lines)
RECURSIVE join(_)
join(lines) ==
    IF lines = <<>> THEN <<>>
    ELSE IF Len(lines) = 1 THEN lines[1]
    ELSE lines[1] \o <<Newline>> \o join(Tail(lines))

\* json.loads(text): the value, or JSONDecodeError with the parser's message
json_loads(text) ==
    LET body == strip(text) IN
    IF body # <<>> /\ body[1] \in ValueLexemes
    THEN IF Len(body) = 1
         THEN [ok |-> TRUE, value |-> LexemeValue[body[1]], msg |-> ""]
         ELSE [ok |-> FALSE, value |-> JNull, msg |-> "Extra data"]
    ELSE [ok |-> FALSE, value |-> JNull, msg |-> "Expecting value"]

(***************************************************************************)
(* agents/documentation_agent.py                                           *)
(***************************************************************************)
\* mutant: the leading response.strip() forgotten
StripFencesUntrimmed(response) ==
    IF startswith(response, Fence)
    THEN LET lines == Tail(split(response))
             kept == IF lines # <<>> /\ strip(lines[Len(lines)]) = <<Fence>>
                     THEN SubSeq(lines, 1, Len(lines) - 1)
                     ELSE lines
         IN join(kept)
    ELSE response

\* lines 55-65 (and modernization_agent.py lines 47-55): trim, then drop a
\* leading fence line and a closing bare fence line
StripFences(response) ==
    LET trimmed == strip(response) IN
    IF startswith(trimmed, Fence)
    THEN LET lines == Tail(split(trimmed))
             kept == IF lines # <<>> /\ strip(lines[Len(lines)]) = <<Fence>>
                     THEN SubSeq(lines, 1, Len(lines) - 1)
                     ELSE lines
         IN join(kept)
    ELSE trimmed

\* raw_response[:500], on whole lexemes
SnippetLen == 500

RECURSIVE CharLen(_)
CharLen(s) == IF s = <<>> THEN 0 ELSE Len(Head(s)) + CharLen(Tail(s))

Snippet(text) ==
    LET n == CHOOSE n \in 0..Len(text) :
                /\ CharLen(SubSeq(text, 1, n)) <= SnippetLen
                /\ n < Len(text) => CharLen(SubSeq(text, 1, n + 1)) > SnippetLen
    IN Concat(SubSeq(text, 1, n))

ValueError(args) == [status |-> "ValueError", text |-> <<>>, message |-> args]

\* mutant: the bad-JSON error also quotes the raw output, as line 49 does
clean_json_response_quoting(response) ==
    LET stripped == StripFences(response)
        parsed == json_loads(stripped)
    IN IF parsed.ok
       THEN [status |-> "ok", text |-> stripped, message |-> <<>>]
       ELSE ValueError(<<"LLM did not return valid JSON: ", parsed.msg,
                         "\n\nRaw output:\n", Snippet(response)>>)

\* _clean_json_response
clean_json_response(response) ==
    LET stripped == StripFences(response)
        parsed == json_loads(stripped)
    IN IF parsed.ok
       THEN [status |-> "ok", text |-> stripped, message |-> <<>>]
       ELSE ValueError(<<"LLM did not return valid JSON: ", parsed.msg>>)

\* mutant: the pydantic error is left to propagate unwrapped
structured_analysis_unwrapped(raw_response) ==
    LET cleaned_json == clean_json_response(raw_response) IN
    IF cleaned_json.status # "ok"
    THEN [status |-> cleaned_json.status, ir |-> NoIR, message |-> cleaned_json.message]
    ELSE LET checked == model_validate(json_loads(cleaned_json.text).value) IN
         IF checked.status = "ok"
         THEN [status |-> "ok", ir |-> checked.ir, message |-> <<>>]
         ELSE [status |-> "ValidationError", ir |-> NoIR,
               message |-> <<"validation error for ProjectIR">>]

\* generate_structured_analysis, from the model's raw response on (lines 41-49)
structured_analysis(raw_response) ==
    LET cleaned_json == clean_json_response(raw_response) IN
    IF cleaned_json.status # "ok"
    THEN [status |-> cleaned_json.status, ir |-> NoIR, message |-> cleaned_json.message]
    ELSE LET checked == model_validate(json_loads(cleaned_json.text).value) IN
         IF checked.status = "ok"
         THEN [status |-> "ok", ir |-> checked.ir, message |-> <<>>]
         ELSE [status |-> "ValueError", ir |-> NoIR,
               message |-> <<"LLM output failed schema validation: ",
                             "validation error for ProjectIR",
                             "\n\nRaw output:\n", Snippet(raw_response)>>]

(***************************************************************************)
(* agents/modernization_agent.py                                           *)
(***************************************************************************)
\* `sub in s` for two Python strings, on the strings of this model (none is
\* a proper substring of another)
Substring(sub, s) == sub = s

\* `key in result` for a parsed JSON value; "TypeError" when the value does
\* not support `in` (int, float, bool, None)
Contains(result, key) ==
    CASE result.t = "obj" -> IF key \in DOMAIN result.v THEN "yes" ELSE "no"
      [] result.t = "arr" ->
            IF \E i \in DOMAIN result.v : result.v[i] = JStr(key) THEN "yes" ELSE "no"
      [] result.t = "str" -> IF Substring(key, result.v) THEN "yes" ELSE "no"
      [] OTHER -> "TypeError"

\* result[key] = default when key is not in result (lines 63-66)
SetDefault(result, key, default) ==
    IF key \in DOMAIN result.v
    THEN result
    ELSE JObj([k \in DOMAIN result.v \cup {key} |->
                    IF k = key THEN default ELSE result.v[k]])

Returned(value) == [status |-> "ok", result |-> value, message |-> <<>>]
Raised(type, args) == [status |-> type, result |-> JNull, message |-> args]

\* lines 60-68 on a parsed value that is not a JSON object: `in` and item
\* assignment on a list or a str, or a TypeError
ValidateNonObject(result) ==
    IF Contains(result, "modernized_code") = "TypeError"
    THEN Raised("TypeError", <<"argument is not iterable">>)
    ELSE IF Contains(result, "modernized_code") = "no"
    THEN Raised("ValueError", <<"Missing 'modernized_code' field">>)
    ELSE IF Contains(result, "filename") = "no"
            \/ Contains(result, "changes_summary") = "no"
    THEN Raised("TypeError", <<"object does not support item assignment">>)
    ELSE Returned(result)

\* mutant: the fallback returns the response as received
parse_modernization_response_raw(response) ==
    LET stripped == StripFences(response)
        parsed == json_loads(stripped)
    IN IF ~parsed.ok
       THEN Returned(JObj([modernized_code |-> JStr(Concat(response)),
                           filename |-> JStr("modernized_code.txt"),
                           changes_summary |->
                              JStr("Modernization completed (no structured response)")]))
       ELSE IF parsed.value.t # "obj"
       THEN ValidateNonObject(parsed.value)
       ELSE IF "modernized_code" \notin DOMAIN parsed.value.v
       THEN Raised("ValueError", <<"Missing 'modernized_code' field">>)
       ELSE Returned(SetDefault(SetDefault(parsed.value,
                                           "filename", JStr("modernized_code.txt")),
                                "changes_summary", JStr("Code modernized")))

\* mutant: every field of the response is given a default
parse_modernization_response_lenient(response) ==
    LET stripped == StripFences(response)
        parsed == json_loads(stripped)
    IN IF ~parsed.ok
       THEN Returned(JObj([modernized_code |-> JStr(Concat(stripped)),
                           filename |-> JStr("modernized_code.txt"),
                           changes_summary |->
                              JStr("Modernization completed (no structured response)")]))
       ELSE IF parsed.value.t # "obj"
       THEN ValidateNonObject(parsed.value)
       ELSE Returned(SetDefault(SetDefault(SetDefault(parsed.value,
                                    "modernized_code", JStr("")),
                                    "filename", JStr("modernized_code.txt")),
                                "changes_summary", JStr("Code modernized")))

\* mutant: the defaults of the two cosmetic fields exchanged
parse_modernization_response_swapped(response) ==
    LET stripped == StripFences(response)
        parsed == json_loads(stripped)
    IN IF ~parsed.ok
       THEN Returned(JObj([modernized_code |-> JStr(Concat(stripped)),
                           filename |-> JStr("modernized_code.txt"),
                           changes_summary |->
                              JStr("Modernization completed (no structured response)")]))
       ELSE IF parsed.value.t # "obj"
       THEN ValidateNonObject(parsed.value)
       ELSE IF "modernized_code" \notin DOMAIN parsed.value.v
       THEN Raised("ValueError", <<"Missing 'modernized_code' field">>)
       ELSE Returned(SetDefault(SetDefault(parsed.value,
                                           "filename", JStr("Code modernized")),
                                "changes_summary", JStr("modernized_code.txt")))

\* _parse_modernization_response
parse_modernization_response(response) ==
    LET stripped == StripFences(response)
        parsed == json_loads(stripped)
    IN IF ~parsed.ok
       THEN Returned(JObj([modernized_code |-> JStr(Concat(stripped)),
                           filename |-> JStr("modernized_code.txt"),
                           changes_summary |->
                              JStr("Modernization completed (no structured response)")]))
       ELSE IF parsed.value.t # "obj"
       THEN ValidateNonObject(parsed.value)
       ELSE IF "modernized_code" \notin DOMAIN parsed.value.v
       THEN Raised("ValueError", <<"Missing 'modernized_code' field">>)
       ELSE Returned(SetDefault(SetDefault(parsed.value,
                                           "filename", JStr("modernized_code.txt")),
                                "changes_summary", JStr("Code modernized")))

(***************************************************************************)
(* The raw responses of the model: an optional opening fence line, a body  *)
(* and an optional closing fence, with whitespace around and between.      *)
(***************************************************************************)
RECURSIVE SeqsUpTo(_, _)
SeqsUpTo(S, n) ==
    IF n = 0 THEN {<<>>}
    ELSE SeqsUpTo(S, n - 1) \cup
         {Append(s, x) : s \in {q \in SeqsUpTo(S, n - 1) : Len(q) = n - 1}, x \in S}

\* whitespace before and after the whole response
Margins == {<<<<>>, <<>>>>, <<<<Newline, Space>>, <<>>>>, <<<<>>, <<Space, Newline>>>>}
Openers == {<<>>, <<Fence, Newline>>, <<Fence, Word, Newline>>, <<Fence, Word>>, <<Word>>}
Closers == {<<>>, <<Newline, Fence>>, <<Fence>>, <<Newline, Fence, Word>>}
Bodies ==
    {<<>>, <<Word>>, <<"{mc}", "7">>, <<"{ir}", Newline, Word>>}
    \cup {<<lx>> : lx \in ValueLexemes}

Gaps == SeqsUpTo(Whitespace, MaxWs)

RawText(m, open, gap1, body, gap2, close) ==
    m[1] \o open \o gap1 \o body \o gap2 \o close \o m[2]

\* the values of the variables a specification does not use
Pending == [status |-> "pending", ir |-> NoIR]
NotCalled == [status |-> "pending"]

TextIdle ==
    /\ raw = <<>>
    /\ cleaned = NotCalled
    /\ recleaned = NotCalled
    /\ analysis = NotCalled
    /\ modernization = NotCalled

\* the renderers are not in use
RenderIdle ==
    /\ render_ir = NoIR
    /\ original_code = ""
    /\ modern_code = ""
    /\ summary_text = ""
    /\ hash_seed = <<>>
    /\ documentation = NotCalled
    /\ earlier = NotCalled
    /\ skeleton = NotCalled
    /\ markdown = NotCalled
    /\ revalidated = Pending

(***************************************************************************)
(* app.py: the batch loop (lines 317-417).                                 *)
(***************************************************************************)
FileNames == {"main.py", "Order.java"}
Folders == {"", "services"}

\* core/language_detector.py, on the file names of this model
detect_language(filename) ==
    CASE filename = "main.py" -> "python"
      [] filename = "Order.java" -> "java"
      [] OTHER -> "python"

\* what LLMClient.generate returns to generate_structured_analysis
AnalysisResponses ==
    {<<Fence, Word, Newline, "{ir}", Newline, Fence>>,
     <<"{ir:0}">>,
     <<Word>>,
     <<"{ir:enum}">>}

\* what LLMClient.generate returns to modernize_code
ModernizationResponses ==
    {<<Fence, Word, Newline, "{mc,fn,cs}", Newline, Fence>>,
     <<Word>>,
     <<"{fn}">>,
     <<"7">>,
     <<"[mc,fn,cs]">>}

NoLocal == JNull
NoDocs == [master_doc |-> "", modular_docs |-> {}]
EmptyMap == [p \in {} |-> JNull]

BatchIdle ==
    /\ files_to_process = <<>>
    /\ idx = 0
    /\ pc = "idle"
    /\ language = ""
    /\ project_ir = NoIR
    /\ modernization_result = NoLocal
    /\ comprehensive_docs = NoDocs
    /\ error = ""
    /\ all_results = <<>>
    /\ modernized_files = EmptyMap
    /\ documentation_files = EmptyMap
    /\ reported = <<>>
    /\ llm_calls = <<>>
    /\ attempted = {}
    /\ stages_ok = {}
    /\ stored = <<>>

\* the classes the handlers of lines 407-412 catch, with the label each
\* reports under; an exception no handler catches ends the script
ExceptionClasses == {"ValueError", "RuntimeError", "TypeError", "KeyError", "Exception"}

\* mutant: the generic handler of line 410 left out
HandlerOnlyValueError(raised) ==
    IF raised = "ValueError" THEN "Schema validation failed" ELSE "uncaught"

Handler(raised) ==
    IF raised = "ValueError" THEN "Schema validation failed"
    ELSE IF raised \in ExceptionClasses THEN "Failed to process"
    ELSE "uncaught"

\* mutant: TECHNICAL_DEBT.md written whether or not there is debt
ModularDocNamesAll(ir) ==
    {"README.md", "ARCHITECTURE.md", "MIGRATION_GUIDE.md", "API_REFERENCE.md",
     "TESTING_GUIDE.md", "TECHNICAL_DEBT.md"}

\* AdvancedDocumentationGenerator._generate_modular_docs: the document names
ModularDocNames(ir) ==
    {"README.md", "ARCHITECTURE.md", "MIGRATION_GUIDE.md", "API_REFERENCE.md",
     "TESTING_GUIDE.md"}
    \cup (IF ir.technical_debt # <<>> THEN {"TECHNICAL_DEBT.md"} ELSE {})

Put(map, key, value) ==
    [p \in DOMAIN map \cup {key} |-> IF p = key THEN value ELSE map[p]]

RECURSIVE PutAll(_, _, _, _)
PutAll(map, prefix, names, position) ==
    IF names = {} THEN map
    ELSE LET n == CHOOSE n \in names : TRUE IN
         PutAll(Put(map, prefix \o n, [doc |-> n, of |-> position]),
                prefix, names \ {n}, position)

InitBatch ==
    /\ files_to_process \in
          SeqsUpTo([filename : FileNames, folder : Folders], MaxFiles) \ {<<>>}
    /\ idx = 0
    /\ pc = "loop"
    /\ language = ""
    /\ project_ir = NoIR
    /\ modernization_result = NoLocal
    /\ comprehensive_docs = NoDocs
    /\ error = ""
    /\ all_results = <<>>
    /\ modernized_files = EmptyMap
    /\ documentation_files = EmptyMap
    /\ reported = <<>>
    /\ llm_calls = <<>>
    /\ attempted = {}
    /\ stages_ok = {}
    /\ stored = <<>>
    /\ payload = JNull
    /\ validation = Pending
    /\ TextIdle
    /\ RenderIdle

\* mutant: the files taken from the end of the list
CurrentFromEnd == files_to_process[Len(files_to_process) + 1 - idx]

\* `for idx, file_data in enumerate(files_to_process)`: the file of this iteration
Current == files_to_process[idx]

\* lines 326-333: the next file, and its language
StartFile ==
    /\ pc = "loop"
    /\ idx < Len(files_to_process)
    /\ idx' = idx + 1
    /\ language' = detect_language(files_to_process[idx + 1].filename)
    /\ attempted' = attempted \cup {idx + 1}
    /\ project_ir' = NoIR
    /\ modernization_result' = NoLocal
    /\ comprehensive_docs' = NoDocs
    /\ error' = ""
    /\ pc' = "analysis"
    /\ UNCHANGED <<files_to_process, storeVars, reported, llm_calls, stages_ok,
                   stored, validateVars, textVars, renderVars>>

\* mutant: a failed stage sends the file back to the analysis stage
RaiseAndRetry(type) ==
    /\ error' = type
    /\ pc' = "analysis"

\* an exception leaves the try block for the handlers of lines 407-412
Raise(type) ==
    /\ error' = type
    /\ pc' = "except"

\* mutant: a response that fails validation is passed on all the same
AnalysisUnvalidated ==
    /\ pc = "analysis"
    /\ llm_calls' = Append(llm_calls, <<idx, "analysis">>)
    /\ \/ /\ Raise("RuntimeError")
          /\ UNCHANGED project_ir
       \/ \E response \in AnalysisResponses :
             LET outcome == structured_analysis(response) IN
             /\ project_ir' = outcome.ir
             /\ pc' = "skeleton"
             /\ UNCHANGED error
    /\ UNCHANGED <<files_to_process, idx, language, modernization_result,
                   comprehensive_docs, storeVars, reported, attempted, stages_ok,
                   stored, validateVars, textVars, renderVars>>

\* lines 339-341: generate_structured_analysis; the model call fails
\* (RuntimeError, llm_client.py:40) or returns some text
Analysis ==
    /\ pc = "analysis"
    /\ llm_calls' = Append(llm_calls, <<idx, "analysis">>)
    /\ \/ /\ Raise("RuntimeError")
          /\ UNCHANGED project_ir
       \/ \E response \in AnalysisResponses :
             LET outcome == structured_analysis(response) IN
             IF outcome.status = "ok"
             THEN /\ project_ir' = outcome.ir
                  /\ pc' = "skeleton"
                  /\ UNCHANGED error
             ELSE /\ Raise(outcome.status)
                  /\ UNCHANGED project_ir
    /\ UNCHANGED <<files_to_process, idx, language, modernization_result,
                   comprehensive_docs, storeVars, reported, attempted, stages_ok,
                   stored, validateVars, textVars, renderVars>>

\* line 344: generate_code_skeleton, which returns or raises
Skeleton ==
    /\ pc = "skeleton"
    /\ \/ Raise("Exception")
       \/ /\ pc' = "modernize"
          /\ UNCHANGED error
    /\ UNCHANGED <<files_to_process, idx, language, project_ir, modernization_result,
                   comprehensive_docs, storeVars, historyVars, validateVars, textVars, renderVars>>

\* lines 349-356: modernize_code
Modernize ==
    /\ pc = "modernize"
    /\ llm_calls' = Append(llm_calls, <<idx, "modernization">>)
    /\ \/ /\ Raise("RuntimeError")
          /\ UNCHANGED modernization_result
       \/ \E response \in ModernizationResponses :
             LET outcome == parse_modernization_response(response) IN
             IF outcome.status = "ok"
             THEN /\ modernization_result' = outcome.result
                  /\ pc' = "docs"
                  /\ UNCHANGED error
             ELSE /\ Raise(outcome.status)
                  /\ UNCHANGED modernization_result
    /\ UNCHANGED <<files_to_process, idx, language, project_ir, comprehensive_docs,
                   storeVars, reported, attempted, stages_ok, stored, validateVars, textVars, renderVars>>

\* lines 361-367: generate_comprehensive_documentation, which returns the
\* master document and the modular documents or raises; indexing a result
\* that is no dict raises TypeError
Documentation ==
    /\ pc = "docs"
    /\ IF modernization_result.t # "obj"
       THEN /\ Raise("TypeError")
            /\ UNCHANGED <<comprehensive_docs, stages_ok>>
       ELSE \/ /\ Raise("Exception")
               /\ UNCHANGED <<comprehensive_docs, stages_ok>>
            \/ /\ comprehensive_docs' =
                      [master_doc |-> "MASTER_DOCUMENTATION.md",
                       modular_docs |-> ModularDocNames(project_ir)]
               /\ stages_ok' = stages_ok \cup {idx}
               /\ pc' = "store"
               /\ UNCHANGED error
    /\ UNCHANGED <<files_to_process, idx, language, project_ir, modernization_result,
                   storeVars, reported, llm_calls, attempted, stored, validateVars, textVars, renderVars>>

\* lines 386-389: the folder of the collections, "root" for a root-level file
base_path == IF Current.folder # "" THEN Current.folder ELSE "root"

\* lines 370-405 and 415: the result is stored and the collections filled
Store ==
    /\ pc = "store"
    /\ all_results' = Append(all_results,
            [original_filename |-> Current.filename,
             folder |-> Current.folder,
             language |-> language,
             ir |-> project_ir,
             master_documentation |-> comprehensive_docs.master_doc,
             modular_documentation |-> comprehensive_docs.modular_docs,
             modernized_code |-> modernization_result.v.modernized_code,
             suggested_filename |-> modernization_result.v.filename,
             changes_summary |-> modernization_result.v.changes_summary])
    /\ modernized_files' =
            Put(modernized_files,
                base_path \o "/modernized/" \o modernization_result.v.filename.v,
                [doc |-> "modernized", of |-> idx])
    /\ documentation_files' =
            Put(Put(PutAll(Put(documentation_files,
                               base_path \o "/docs/MASTER_DOCUMENTATION.md",
                               [doc |-> "MASTER_DOCUMENTATION.md", of |-> idx]),
                           base_path \o "/docs/", comprehensive_docs.modular_docs, idx),
                    base_path \o "/skeleton/" \o Current.filename,
                    [doc |-> "skeleton", of |-> idx]),
                base_path \o "/original/" \o Current.filename,
                [doc |-> "original", of |-> idx])
    /\ stored' = Append(stored, idx)
    /\ pc' = "loop"
    /\ UNCHANGED <<files_to_process, idx, localVars, reported, llm_calls, attempted,
                   stages_ok, validateVars, textVars, renderVars>>

\* mutant: the handler keeps what the failed file had produced so far
ExceptKeepingPartial ==
    /\ pc = "except"
    /\ IF Handler(error) = "uncaught"
       THEN /\ pc' = "crashed"
            /\ UNCHANGED <<reported, storeVars>>
       ELSE /\ reported' = Append(reported, <<idx, Handler(error)>>)
            /\ documentation_files' =
                   Put(documentation_files, base_path \o "/original/" \o Current.filename,
                       [doc |-> "original", of |-> idx])
            /\ UNCHANGED <<all_results, modernized_files>>
            /\ pc' = "loop"
    /\ UNCHANGED <<files_to_process, idx, localVars, llm_calls, attempted,
                   stages_ok, stored, validateVars, textVars, renderVars>>

\* lines 407-412: the handlers report and continue with the next file
Except ==
    /\ pc = "except"
    /\ IF Handler(error) = "uncaught"
       THEN /\ pc' = "crashed"
            /\ UNCHANGED reported
       ELSE /\ reported' = Append(reported, <<idx, Handler(error)>>)
            /\ pc' = "loop"
    /\ UNCHANGED <<files_to_process, idx, localVars, storeVars, llm_calls, attempted,
                   stages_ok, stored, validateVars, textVars, renderVars>>

\* generate_index_documentation, lines 163-178: the paths INDEX.md links to
doc_path(result) == IF result.folder # "" THEN result.folder \o "/docs" ELSE "docs"

modern_path(result) ==
    IF result.folder # "" THEN result.folder \o "/modernized" ELSE "modernized"

IndexedDocNames(result) ==
    {"MASTER_DOCUMENTATION.md", "README.md", "ARCHITECTURE.md", "MIGRATION_GUIDE.md",
     "API_REFERENCE.md", "TESTING_GUIDE.md"}
    \cup (IF result.ir.technical_debt # <<>> THEN {"TECHNICAL_DEBT.md"} ELSE {})

\* generate_index_documentation: the links written for each result
generate_index_documentation(results) ==
    [n \in DOMAIN results |->
        [documentation |-> {doc_path(results[n]) \o "/" \o name :
                                name \in IndexedDocNames(results[n])},
         modernized |-> modern_path(results[n]) \o "/"
                            \o results[n].suggested_filename.v]]

\* lines 417-467: the loop is over; without a result the script stops, else
\* INDEX.md and the project README.md join the documentation
Finish ==
    /\ pc = "loop"
    /\ idx = Len(files_to_process)
    /\ pc' = "done"
    /\ documentation_files' =
          IF all_results = <<>> THEN documentation_files
          ELSE Put(Put(documentation_files, "INDEX.md",
                       [doc |-> "INDEX.md", of |-> 0,
                        links |-> generate_index_documentation(all_results)]),
                   "README.md", [doc |-> "README.md", of |-> 0])
    /\ UNCHANGED <<files_to_process, idx, localVars, all_results, modernized_files,
                   historyVars, validateVars, textVars, renderVars>>

Next == StartFile \/ Analysis \/ Skeleton \/ Modernize \/ Documentation \/ Store
            \/ Except \/ Finish

Spec == InitBatch /\ [][Next]_vars

(***************************************************************************)
(* Specification of the schema validator alone.                            *)
(***************************************************************************)
InitValidate ==
    /\ \E sh \in Shapes : \E D \in ReplacementSets(sh) : payload = ProjectJ(D, sh)
    /\ validation = Pending
    /\ TextIdle
    /\ BatchIdle
    /\ RenderIdle

\* documentation_agent.py:46, ProjectIR.model_validate_json(cleaned_json)
Validate ==
    /\ validation.status = "pending"
    /\ validation' = model_validate(payload)
    /\ UNCHANGED <<payload, textVars, batchVars, renderVars>>

NextValidate == Validate

SpecValidate == InitValidate /\ [][NextValidate]_vars

(***************************************************************************)
(* Specification of the text functions: one raw response, and one of the   *)
(* functions applied to it.                                                *)
(***************************************************************************)
InitText ==
    /\ \E m \in Margins, open \in Openers, gap1 \in Gaps, body \in Bodies,
          gap2 \in Gaps, close \in Closers :
            raw = RawText(m, open, gap1, body, gap2, close)
    /\ cleaned = NotCalled
    /\ recleaned = NotCalled
    /\ analysis = NotCalled
    /\ modernization = NotCalled
    /\ payload = JNull
    /\ validation = Pending
    /\ BatchIdle
    /\ RenderIdle

NoCallYet ==
    /\ cleaned = NotCalled
    /\ analysis = NotCalled
    /\ modernization = NotCalled

Clean ==
    /\ NoCallYet
    /\ cleaned' = clean_json_response(raw)
    /\ UNCHANGED <<raw, recleaned, analysis, modernization, validateVars, batchVars, renderVars>>

\* the normalizer applied to its own output
CleanAgain ==
    /\ cleaned # NotCalled
    /\ cleaned.status = "ok"
    /\ recleaned = NotCalled
    /\ recleaned' = clean_json_response(cleaned.text)
    /\ UNCHANGED <<raw, cleaned, analysis, modernization, validateVars, batchVars, renderVars>>

Analyse ==
    /\ NoCallYet
    /\ analysis' = structured_analysis(raw)
    /\ UNCHANGED <<raw, cleaned, recleaned, modernization, validateVars, batchVars, renderVars>>

ParseModernization ==
    /\ NoCallYet
    /\ modernization' = parse_modernization_response(raw)
    /\ UNCHANGED <<raw, cleaned, recleaned, analysis, validateVars, batchVars, renderVars>>

NextText == Clean \/ CleanAgain \/ Analyse \/ ParseModernization

SpecText == InitText /\ [][NextText]_vars

(***************************************************************************)
(* Python strings in the renderers are TLA+ strings, character for         *)
(* character.  A glyph outside ASCII and the backtick cannot be written in *)
(* a TLA+ string: Glyph(name) stands for one such glyph, Backtick for the  *)
(* backtick, Fence for three of them, and the box-drawing strokes of the   *)
(* folder trees are written with | ' and -.                                *)
(***************************************************************************)
Glyph(name) == "<" \o name \o ">"
Backtick == "<bt>"

Lowers == "abcdefghijklmnopqrstuvwxyz"
Uppers == "ABCDEFGHIJKLMNOPQRSTUVWXYZ"

CharAt(s, i) == SubSeq(s, i, i)
IndexOf(alphabet, c) == {i \in 1..Len(alphabet) : CharAt(alphabet, i) = c}
IsCased(c) == IndexOf(Lowers, c) # {} \/ IndexOf(Uppers, c) # {}

upper_char(c) ==
    IF IndexOf(Lowers, c) # {}
    THEN CharAt(Uppers, CHOOSE i \in IndexOf(Lowers, c) : TRUE)
    ELSE c

lower_char(c) ==
    IF IndexOf(Uppers, c) # {}
    THEN CharAt(Lowers, CHOOSE i \in IndexOf(Uppers, c) : TRUE)
    ELSE c

\* str.upper, str.lower, str.title
upper(s) == Concat([i \in 1..Len(s) |-> upper_char(CharAt(s, i))])
lower(s) == Concat([i \in 1..Len(s) |-> lower_char(CharAt(s, i))])
title(s) ==
    Concat([i \in 1..Len(s) |->
                IF i > 1 /\ IsCased(CharAt(s, i - 1))
                THEN lower_char(CharAt(s, i))
                ELSE upper_char(CharAt(s, i))])

\* `sub in s` for strings
str_in(sub, s) ==
    \E i \in 1..(Len(s) - Len(sub) + 1) : SubSeq(s, i, i + Len(sub) - 1) = sub

\* s[:n]
prefix(s, n) == SubSeq(s, 1, IF Len(s) < n THEN Len(s) ELSE n)

\* sep.join(parts)
RECURSIVE str_join(_, _)
str_join(sep, parts) ==
    IF parts = <<>> THEN ""
    ELSE IF Len(parts) = 1 THEN parts[1]
    ELSE str_join(sep, SubSeq(parts, 1, Len(parts) \div 2)) \o sep
         \o str_join(sep, SubSeq(parts, Len(parts) \div 2 + 1, Len(parts)))

\* `x or default` for an Optional[str]: None and "" are both falsy
or_else(opt, default) == IF opt = <<>> \/ opt[1] = "" THEN default ELSE opt[1]

\* [f(x) for x in xs if keep(x)] for xs a sequence: the kept positions, in order
RECURSIVE Positions(_, _)
Positions(n, keep) ==
    IF n = 0 THEN <<>>
    ELSE IF n \in keep THEN Append(Positions(n - 1, keep), n)
    ELSE Positions(n - 1, keep)

\* the concatenation of a sequence of sequences
RECURSIVE Flatten(_)
Flatten(ss) ==
    IF ss = <<>> THEN <<>>
    ELSE IF Len(ss) = 1 THEN ss[1]
    ELSE Flatten(SubSeq(ss, 1, Len(ss) \div 2))
         \o Flatten(SubSeq(ss, Len(ss) \div 2 + 1, Len(ss)))

(***************************************************************************)
(* agents/advanced_documentation_agent.py                                  *)
(***************************************************************************)
get_modern_version(lang) ==
    CASE lower(lang) = "python" -> "Python 3.11+"
      [] lower(lang) = "java" -> "Java 17+ (LTS)"
      [] lower(lang) = "javascript" -> "ES2022+ / Node.js 18+"
      [] lower(lang) = "typescript" -> "TypeScript 5.0+"
      [] lower(lang) = "cpp" -> "C++20"
      [] lower(lang) = "csharp" -> "C# 11 / .NET 7+"
      [] OTHER -> "Modern " \o lang

\* ', '.join([d.category for d in ir.technical_debt[:3]])
LegacyPatterns(ir) ==
    str_join(", ", [i \in 1..(IF Len(ir.technical_debt) < 3
                              THEN Len(ir.technical_debt) ELSE 3) |->
                        ir.technical_debt[i].category])

has_procedural(ir) ==
    \E m \in DOMAIN ir.modules : \E f \in DOMAIN ir.modules[m].functions :
        str_in("main", lower(ir.modules[m].functions[f].name))

has_classes(ir) == \E m \in DOMAIN ir.modules : ir.modules[m].type = "class"

describe_paradigm_shift(ir) ==
    str_join("\n",
        (IF has_procedural(ir) /\ ~has_classes(ir)
         THEN <<"**From:** Procedural, script-based approach",
                "**To:** Modular, object-oriented architecture">>
         ELSE IF has_classes(ir)
         THEN <<"**From:** Monolithic class structure",
                "**To:** Service-oriented, modular design">>
         ELSE <<>>)
        \o <<"**Key Changes:** " \o LegacyPatterns(ir)>>)

NamingConventions(lang) ==
    CASE lang = "python" ->
            <<"- **Files:** " \o Backtick \o "snake_case.py" \o Backtick,
              "- **Classes:** " \o Backtick \o "PascalCase" \o Backtick,
              "- **Functions:** " \o Backtick \o "snake_case()" \o Backtick,
              "- **Constants:** " \o Backtick \o "UPPER_SNAKE_CASE" \o Backtick>>
      [] lang = "java" ->
            <<"- **Files:** " \o Backtick \o "PascalCase.java" \o Backtick,
              "- **Classes:** " \o Backtick \o "PascalCase" \o Backtick,
              "- **Methods:** " \o Backtick \o "camelCase()" \o Backtick,
              "- **Constants:** " \o Backtick \o "UPPER_SNAKE_CASE" \o Backtick>>
      [] lang \in {"javascript", "typescript"} ->
            <<"- **Files:** " \o Backtick \o "kebab-case.js" \o Backtick,
              "- **Classes:** " \o Backtick \o "PascalCase" \o Backtick,
              "- **Functions:** " \o Backtick \o "camelCase()" \o Backtick,
              "- **Constants:** " \o Backtick \o "UPPER_SNAKE_CASE" \o Backtick>>
      [] OTHER -> <<>>

ArchitectureModule(module) ==
    <<"#### Module: " \o Backtick \o module.name \o Backtick,
      "**Type:** " \o title(module.type),
      "**Purpose:** " \o module.description,
      "**Functions:** " \o ToString(Len(module.functions))>>
    \o (IF module.design_patterns # <<>>
        THEN <<"**Patterns:** " \o str_join(", ", module.design_patterns)>>
        ELSE <<>>)
    \o <<"">>

generate_architecture_section(ir) ==
    str_join("\n",
        <<"### Modularization Strategy\n">>
        \o Flatten([m \in DOMAIN ir.modules |-> ArchitectureModule(ir.modules[m])])
        \o <<"### Naming Conventions">>
        \o NamingConventions(ir.language))

generate_folder_structure(ir) ==
    CASE ir.language = "python" ->
            str_join("\n",
                <<"project/",
                  "|-- src/",
                  "|   |-- __init__.py",
                  "|   |-- main.py",
                  "|   |-- services/",
                  "|   |   '-- " \o ir.suggested_filename,
                  "|   '-- utils/",
                  "|       '-- helpers.py",
                  "|-- tests/",
                  "|   |-- test_services.py",
                  "|   '-- test_utils.py",
                  "|-- docs/",
                  "|   '-- API.md",
                  "|-- requirements.txt",
                  "'-- README.md">>)
      [] ir.language = "java" ->
            str_join("\n",
                <<"project/",
                  "|-- src/",
                  "|   '-- main/",
                  "|       '-- java/",
                  "|           '-- com/company/",
                  "|               |-- " \o ir.suggested_filename,
                  "|               |-- services/",
                  "|               '-- utils/",
                  "|-- src/",
                  "|   '-- test/",
                  "|       '-- java/",
                  "|-- pom.xml",
                  "'-- README.md">>)
      [] ir.language \in {"javascript", "typescript"} ->
            str_join("\n",
                <<"project/",
                  "|-- src/",
                  "|   |-- index.js",
                  "|   |-- services/",
                  "|   |   '-- " \o ir.suggested_filename,
                  "|   '-- utils/",
                  "|       '-- helpers.js",
                  "|-- tests/",
                  "|   '-- services.test.js",
                  "|-- package.json",
                  "|-- .eslintrc.js",
                  "'-- README.md">>)
      [] OTHER ->
            str_join("\n",
                <<"project/",
                  "|-- src/",
                  "|   '-- " \o ir.suggested_filename,
                  "|-- tests/",
                  "|-- docs/",
                  "'-- README.md">>)

categorize_benefit(category) ==
    CASE category = "performance" -> Glyph("zap") \o " Faster execution, lower memory"
      [] category = "security" -> Glyph("lock") \o " Prevents vulnerabilities"
      [] category = "maintainability" -> Glyph("broom") \o " Easier to read and modify"
      [] category = "scalability" -> Glyph("chart-up") \o " Handles growth better"
      [] category = "compatibility" -> Glyph("cycle") \o " Works with modern tools"
      [] OTHER -> Glyph("sparkles") \o " Improved code quality"

ComparisonRow(debt) ==
    "| " \o title(debt.category) \o " | " \o prefix(debt.description, 50) \o " | "
        \o prefix(debt.recommendation, 50) \o " | "
        \o categorize_benefit(debt.category) \o " |"

HeuristicRow(lang, original) ==
    IF lang = "python" /\ str_in("print(", original)
    THEN <<"| Logging | " \o Backtick \o "print()" \o Backtick \o " statements | "
            \o Backtick \o "logging" \o Backtick
            \o " module | Proper log levels, file output, production-ready |">>
    ELSE IF lang = "java" /\ str_in("Vector", original)
    THEN <<"| Collections | " \o Backtick \o "Vector" \o Backtick \o ", "
            \o Backtick \o "Hashtable" \o Backtick \o " | "
            \o Backtick \o "ArrayList" \o Backtick \o ", "
            \o Backtick \o "HashMap" \o Backtick
            \o " | Thread-safe by default causes overhead, modern generics |">>
    ELSE IF lang = "javascript" /\ str_in("var ", original)
    THEN <<"| Variables | " \o Backtick \o "var" \o Backtick \o " keyword | "
            \o Backtick \o "const" \o Backtick \o "/" \o Backtick \o "let" \o Backtick
            \o " | Block scoping, prevents hoisting issues |">>
    ELSE <<>>

generate_comparison_table(ir, original, modern) ==
    str_join("\n",
        <<"| Aspect | Legacy Pattern | Modern Pattern | Why? |",
          "|--------|---------------|----------------|------|">>
        \o [i \in 1..(IF Len(ir.technical_debt) < 5 THEN Len(ir.technical_debt) ELSE 5) |->
                ComparisonRow(ir.technical_debt[i])]
        \o HeuristicRow(ir.language, original))

generate_execution_guide(ir) ==
    str_join("\n",
        <<"### Prerequisites\n">>
        \o (CASE ir.language = "python" ->
                    <<Fence \o "bash",
                      "# Install Python 3.11+",
                      "python --version",
                      "",
                      "# Create virtual environment",
                      "python -m venv venv",
                      "source venv/bin/activate  # On Windows: venv\\Scripts\\activate",
                      "",
                      "# Install dependencies",
                      "pip install -r requirements.txt",
                      Fence \o "\n",
                      "### Running the Code\n",
                      Fence \o "bash",
                      "python src/" \o ir.suggested_filename,
                      Fence>>
              [] ir.language = "java" ->
                    <<Fence \o "bash",
                      "# Install Java 17+",
                      "java -version",
                      "",
                      "# Build with Maven",
                      "mvn clean install",
                      "",
                      "# Run",
                      "mvn exec:java",
                      Fence>>
              [] ir.language \in {"javascript", "typescript"} ->
                    <<Fence \o "bash",
                      "# Install Node.js 18+",
                      "node --version",
                      "",
                      "# Install dependencies",
                      "npm install",
                      "",
                      "# Run",
                      "npm start",
                      Fence>>
              [] OTHER -> <<>>))

generate_validation_checklist(ir) ==
    str_join("\n",
        <<"- [ ] All functions produce identical outputs",
          "- [ ] No runtime errors or warnings",
          "- [ ] Unit tests pass (if applicable)",
          "- [ ] Performance benchmarks meet expectations",
          "- [ ] Code follows modern style guidelines",
          "- [ ] Dependencies are up-to-date",
          "- [ ] Documentation is complete",
          "- [ ] Security scan passes">>
        \o (IF ir.technical_debt # <<>>
            THEN <<"- [ ] All " \o ToString(Len(ir.technical_debt))
                    \o " technical debt items addressed">>
            ELSE <<>>))

\* mutant: the severities gone through from the least to the most severe
SeverityOrderAscending == <<"low", "medium", "high", "critical">>

\* the list of severities the debt renderers go through, lines 412 and 149
SeverityOrder == <<"critical", "high", "medium", "low">>

\* by_severity[severity]: the positions of the items of that severity, in order
by_severity(ir, severity) ==
    Positions(Len(ir.technical_debt),
              {i \in DOMAIN ir.technical_debt : ir.technical_debt[i].severity = severity})

SeverityEmoji(severity) ==
    CASE severity = "critical" -> Glyph("red")
      [] severity = "high" -> Glyph("orange")
      [] severity = "medium" -> Glyph("yellow")
      [] severity = "low" -> Glyph("green")

DebtEntry(debt) ==
    <<"#### " \o title(debt.category),
      "**Issue:** " \o debt.description,
      "**Resolution:** " \o debt.recommendation \o "\n">>

SeverityGroup(ir, severity) ==
    IF by_severity(ir, severity) = <<>> THEN <<>>
    ELSE <<"### " \o SeverityEmoji(severity) \o " " \o upper(severity) \o " Priority\n">>
         \o Flatten([k \in DOMAIN by_severity(ir, severity) |->
                        DebtEntry(ir.technical_debt[by_severity(ir, severity)[k]])])

generate_technical_debt_section(ir) ==
    str_join("\n",
        Flatten([s \in DOMAIN SeverityOrder |-> SeverityGroup(ir, SeverityOrder[s])]))

\* the code listings of the master document show this many characters
ListingLimit == 2000

\* mutant: the marker appended from the limit on (>= in place of >)
CodeListingOffByOne(code) ==
    prefix(code, ListingLimit) \o (IF Len(code) >= ListingLimit THEN "..." ELSE "")

\* original_code[:2000] + ("..." if len(original_code) > 2000 else "")
CodeListing(code) ==
    prefix(code, ListingLimit) \o (IF Len(code) > ListingLimit THEN "..." ELSE "")

RoadmapItems(ir) ==
    [i \in DOMAIN ir.modernization_priority |->
        ToString(i) \o ". " \o ir.modernization_priority[i]]

RECURSIVE SumOf(_)
SumOf(ns) == IF ns = <<>> THEN 0 ELSE Head(ns) + SumOf(Tail(ns))

\* mutant: the technical-debt section emitted whether or not there is debt
MasterDebtSectionAlways(ir) ==
    <<"## 6. Technical Debt Addressed\n",
      generate_technical_debt_section(ir),
      "\n---\n">>

\* lines 103-107: section 6, only for an IR with technical debt
MasterDebtSection(ir) ==
    IF ir.technical_debt # <<>>
    THEN <<"## 6. Technical Debt Addressed\n",
           generate_technical_debt_section(ir),
           "\n---\n">>
    ELSE <<>>

\* the `sections` list of _generate_master_doc
MasterSections(ir, original, modern, changes) ==
    <<"# Code Modernization Documentation",
      "## " \o ir.original_filename \o " " \o Glyph("arrow") \o " "
            \o ir.suggested_filename \o "\n",
      "---\n",
      "## 1. Metadata & Environment\n",
      "### Source",
      "- **Language:** " \o upper(ir.language),
      "- **Original File:** " \o Backtick \o ir.original_filename \o Backtick,
      "- **Legacy Patterns:** " \o LegacyPatterns(ir) \o "\n",
      "### Target",
      "- **Modern File:** " \o Backtick \o ir.suggested_filename \o Backtick,
      "- **Target Version:** " \o get_modern_version(ir.language),
      "- **Modernization Focus:** " \o changes \o "\n",
      "### Paradigm Shift",
      describe_paradigm_shift(ir),
      "\n---\n",
      "## 2. Modernized Code Architecture\n",
      generate_architecture_section(ir),
      "\n---\n",
      "## 3. Proposed Folder Structure\n",
      Fence,
      generate_folder_structure(ir),
      Fence \o "\n",
      "\n---\n",
      "## 4. Legacy vs Modern: Side-by-Side Comparison\n",
      generate_comparison_table(ir, original, modern),
      "\n---\n",
      "## 5. Complete Code Transformation\n",
      "### Legacy Code (Before)",
      Fence \o ir.language,
      CodeListing(original),
      Fence \o "\n",
      "### Modern Code (After)",
      Fence \o ir.language,
      CodeListing(modern),
      Fence \o "\n",
      "\n---\n">>
    \o MasterDebtSection(ir)
    \o <<"## 7. Execution Guide\n",
         generate_execution_guide(ir),
         "\n---\n",
         "## 8. Validation Checklist\n",
         generate_validation_checklist(ir),
         "\n---\n">>
    \o (IF ir.modernization_priority # <<>>
        THEN <<"## 9. Modernization Roadmap\n">> \o RoadmapItems(ir) \o <<"\n---\n">>
        ELSE <<>>)
    \o <<"\n## Summary\n",
         "**Total Modules:** " \o ToString(Len(ir.modules)),
         "**Total Functions:** "
            \o ToString(SumOf([m \in DOMAIN ir.modules |-> Len(ir.modules[m].functions)])),
         "**Technical Debt Items:** " \o ToString(Len(ir.technical_debt)),
         "**Status:** " \o Glyph("check") \o " Modernization Complete\n">>

generate_master_doc(ir, original, modern, changes) ==
    str_join("\n", MasterSections(ir, original, modern, changes))

generate_readme(ir, changes) ==
    "# " \o ir.suggested_filename \o "\n\n"
    \o ir.summary \o "\n\n"
    \o "## Overview\n\n"
    \o "This is the modernized version of " \o Backtick \o ir.original_filename
    \o Backtick \o ".\n\n"
    \o "**Language:** " \o upper(ir.language) \o "  \n"
    \o "**Target Version:** " \o get_modern_version(ir.language) \o "\n\n"
    \o "## Changes Summary\n\n"
    \o changes \o "\n\n"
    \o "## Quick Start\n\n"
    \o "See [MIGRATION_GUIDE.md](MIGRATION_GUIDE.md) for detailed setup instructions.\n\n"
    \o "## Documentation\n\n"
    \o "- [Architecture](ARCHITECTURE.md) - System design and structure\n"
    \o "- [API Reference](API_REFERENCE.md) - Function documentation\n"
    \o "- [Migration Guide](MIGRATION_GUIDE.md) - How to modernize\n"
    \o "- [Testing Guide](TESTING_GUIDE.md) - Validation and tests\n\n"
    \o "## Status\n\n"
    \o Glyph("check") \o " Modernization Complete  \n"
    \o Glyph("chart") \o " Technical Debt Resolved: "
    \o ToString(Len(ir.technical_debt)) \o " items\n"

\* set(p for m in ir.modules for p in m.design_patterns)
DesignPatternSet(ir) ==
    UNION {{ir.modules[m].design_patterns[i] : i \in DOMAIN ir.modules[m].design_patterns} :
           m \in DOMAIN ir.modules}

\* iteration over a set of strings: the order is that of the strings' hashes,
\* which the interpreter salts anew in every process (seed: the strings in
\* the order this process's hashing puts them)
set_iteration(S, seed) == [k \in DOMAIN Positions(Len(seed), {i \in DOMAIN seed : seed[i] \in S}) |->
                              seed[Positions(Len(seed), {i \in DOMAIN seed : seed[i] \in S})[k]]]


generate_architecture_doc(ir, seed) ==
    "# Architecture Documentation\n\n"
    \o "## System Overview\n\n"
    \o ir.summary \o "\n\n"
    \o "## Module Structure\n\n"
    \o generate_architecture_section(ir) \o "\n\n"
    \o "## Design Patterns\n\n"
    \o (IF str_join(", ", set_iteration(DesignPatternSet(ir), seed)) # ""
        THEN str_join(", ", set_iteration(DesignPatternSet(ir), seed))
        ELSE "Standard patterns applied") \o "\n\n"
    \o "## Dependencies\n\n"
    \o (IF str_join("\n", [i \in DOMAIN ir.dependencies |-> "- " \o ir.dependencies[i]]) # ""
        THEN str_join("\n", [i \in DOMAIN ir.dependencies |-> "- " \o ir.dependencies[i]])
        ELSE "No external dependencies") \o "\n"

generate_migration_guide(ir, original, modern) ==
    "# Migration Guide\n\n"
    \o "## Step-by-Step Modernization\n\n"
    \o generate_execution_guide(ir) \o "\n\n"
    \o "## Validation\n\n"
    \o generate_validation_checklist(ir) \o "\n\n"
    \o "## Code Comparison\n\n"
    \o "See complete before/after comparison in the master documentation.\n"

CountSeverity(ir, severity) ==
    Cardinality({i \in DOMAIN ir.technical_debt : ir.technical_debt[i].severity = severity})

generate_technical_debt_doc(ir) ==
    "# Technical Debt Analysis\n\n"
    \o generate_technical_debt_section(ir) \o "\n\n"
    \o "## Summary\n\n"
    \o "Total Items: " \o ToString(Len(ir.technical_debt)) \o "  \n"
    \o "Critical: " \o ToString(CountSeverity(ir, "critical")) \o "  \n"
    \o "High: " \o ToString(CountSeverity(ir, "high")) \o "\n"

ApiFunction(func) ==
    <<"### " \o Backtick \o func.name \o Backtick \o "\n",
      func.description \o "\n">>
    \o (IF func.inputs # <<>>
        THEN <<"**Parameters:**">>
             \o [i \in DOMAIN func.inputs |->
                    "- " \o Backtick \o func.inputs[i].name \o Backtick \o " ("
                    \o func.inputs[i].type \o "): "
                    \o or_else(func.inputs[i].description, "N/A")]
             \o <<"">>
        ELSE <<>>)
    \o (IF func.outputs # <<>>
        THEN <<"**Returns:**">>
             \o [i \in DOMAIN func.outputs |->
                    "- " \o func.outputs[i].type \o ": "
                    \o or_else(func.outputs[i].description, "N/A")]
             \o <<"">>
        ELSE <<>>)

ApiModule(module) ==
    <<"## " \o module.name \o "\n", module.description \o "\n">>
    \o Flatten([f \in DOMAIN module.functions |-> ApiFunction(module.functions[f])])

generate_api_reference(ir) ==
    str_join("\n",
        <<"# API Reference\n">>
        \o Flatten([m \in DOMAIN ir.modules |-> ApiModule(ir.modules[m])]))

generate_testing_guide(ir) ==
    "# Testing Guide\n\n"
    \o "## Test Strategy\n\n"
    \o generate_validation_checklist(ir) \o "\n\n"
    \o "## Unit Tests\n\n"
    \o "Create tests for each function in the following modules:\n\n"
    \o str_join("\n", [m \in DOMAIN ir.modules |->
                          "- " \o ir.modules[m].name \o " ("
                          \o ToString(Len(ir.modules[m].functions)) \o " functions)"])
    \o "\n\n"
    \o "## Example Test Structure\n"
    \o Fence \o ir.language \o "\n"
    \o "# Add example test code based on language\n"
    \o Fence \o "\n"

\* the `docs` dict of _generate_modular_docs: name -> content
generate_modular_docs(ir, original, modern, changes, seed) ==
    [name \in ModularDocNames(ir) |->
        CASE name = "README.md" -> generate_readme(ir, changes)
          [] name = "ARCHITECTURE.md" -> generate_architecture_doc(ir, seed)
          [] name = "MIGRATION_GUIDE.md" -> generate_migration_guide(ir, original, modern)
          [] name = "TECHNICAL_DEBT.md" -> generate_technical_debt_doc(ir)
          [] name = "API_REFERENCE.md" -> generate_api_reference(ir)
          [] name = "TESTING_GUIDE.md" -> generate_testing_guide(ir)]

generate_master_documentation(ir, original, modern, changes, seed) ==
    [master_doc |-> generate_master_doc(ir, original, modern, changes),
     modular_docs |-> generate_modular_docs(ir, original, modern, changes, seed)]

(***************************************************************************)
(* agents/documentation_agent.py: the renderers                            *)
(***************************************************************************)
MarkdownFunction(func) ==
    <<"\n##### " \o Backtick \o func.name \o Backtick \o "\n",
      func.description \o "\n">>
    \o (IF func.modifiers # <<>>
        THEN <<"**Modifiers:** " \o str_join(", ", func.modifiers) \o "\n">> ELSE <<>>)
    \o (IF func.inputs # <<>>
        THEN <<"**Parameters:**\n">>
             \o [i \in DOMAIN func.inputs |->
                    "- " \o Backtick \o func.inputs[i].type \o " " \o func.inputs[i].name
                    \o Backtick \o ": " \o or_else(func.inputs[i].description, "N/A")
                    \o "\n"]
        ELSE <<>>)
    \o (IF func.outputs # <<>>
        THEN <<"**Returns:**\n">>
             \o [i \in DOMAIN func.outputs |->
                    "- " \o Backtick \o func.outputs[i].type \o Backtick \o ": "
                    \o or_else(func.outputs[i].description, "N/A") \o "\n"]
        ELSE <<>>)
    \o (IF or_else(func.business_logic, "") # ""
        THEN <<"**Business Logic:** " \o func.business_logic[1] \o "\n">> ELSE <<>>)
    \o (IF func.side_effects # <<>>
        THEN <<"**Side Effects:** " \o str_join(", ", func.side_effects) \o "\n">>
        ELSE <<>>)
    \o (IF func.decisions # <<>>
        THEN <<"**Decision Points:**\n">>
             \o [i \in DOMAIN func.decisions |->
                    "- " \o func.decisions[i].condition \o ": "
                    \o or_else(func.decisions[i].description, "N/A") \o "\n"]
        ELSE <<>>)
    \o (IF func.exceptions # <<>>
        THEN <<"**Exceptions:** " \o str_join(", ", func.exceptions) \o "\n">> ELSE <<>>)
    \o (IF func.dependencies # <<>>
        THEN <<"**Dependencies:** " \o str_join(", ", func.dependencies) \o "\n">>
        ELSE <<>>)

MarkdownModule(module) ==
    <<"### " \o title(module.type) \o ": " \o Backtick \o module.name \o Backtick \o "\n",
      module.description \o "\n">>
    \o (IF module.design_patterns # <<>>
        THEN <<"**Design Patterns:** " \o str_join(", ", module.design_patterns) \o "\n">>
        ELSE <<>>)
    \o (IF module.attributes # <<>>
        THEN <<"**Attributes:**\n">>
             \o [i \in DOMAIN module.attributes |->
                    "- " \o Backtick \o module.attributes[i].type \o " "
                    \o module.attributes[i].name \o Backtick \o ": "
                    \o or_else(module.attributes[i].description, "N/A") \o "\n"]
        ELSE <<>>)
    \o (IF module.functions # <<>>
        THEN <<"\n#### Methods (" \o ToString(Len(module.functions)) \o " total)\n">>
             \o Flatten([f \in DOMAIN module.functions |->
                            MarkdownFunction(module.functions[f])])
        ELSE <<>>)
    \o <<"\n---\n">>

MarkdownDebtGroup(ir, severity) ==
    IF by_severity(ir, severity) = <<>> THEN <<>>
    ELSE <<"\n### " \o upper(severity) \o " Priority\n">>
         \o Flatten([k \in DOMAIN by_severity(ir, severity) |->
                <<"**" \o title(ir.technical_debt[by_severity(ir, severity)[k]].category)
                    \o ":** "
                    \o ir.technical_debt[by_severity(ir, severity)[k]].description \o "\n",
                  "*Recommendation:* "
                    \o ir.technical_debt[by_severity(ir, severity)[k]].recommendation
                    \o "\n\n">>])

generate_markdown_from_ir(ir) ==
    str_join("\n",
        <<"# " \o upper(ir.language) \o " Code Analysis\n",
          "**Original File:** " \o Backtick \o ir.original_filename \o Backtick \o "  ",
          "**Suggested Modern Name:** " \o Backtick \o ir.suggested_filename \o Backtick
                \o "\n",
          "## Project Summary\n" \o ir.summary \o "\n",
          "## Architecture Overview\n">>
        \o Flatten([m \in DOMAIN ir.modules |-> MarkdownModule(ir.modules[m])])
        \o (IF ir.technical_debt # <<>>
            THEN <<"## " \o Glyph("warning") \o " Technical Debt Analysis\n">>
                 \o Flatten([s \in DOMAIN SeverityOrder |->
                                MarkdownDebtGroup(ir, SeverityOrder[s])])
            ELSE <<>>)
        \o (IF ir.modernization_priority # <<>>
            THEN <<"## " \o Glyph("rocket") \o " Modernization Roadmap\n">>
                 \o [i \in DOMAIN ir.modernization_priority |->
                        ToString(i) \o ". " \o ir.modernization_priority[i] \o "\n"]
            ELSE <<>>)
        \o (IF ir.dependencies # <<>>
            THEN <<"\n## " \o Glyph("package") \o " External Dependencies\n">>
                 \o [i \in DOMAIN ir.dependencies |-> "- " \o ir.dependencies[i] \o "\n"]
            ELSE <<>>))

ParamNames(func) == [i \in DOMAIN func.inputs |-> func.inputs[i].name]

LogicLine(indent, mark, func) ==
    IF or_else(func.business_logic, "") # ""
    THEN <<indent \o mark \o " Logic: " \o func.business_logic[1]>>
    ELSE <<>>

java_return_type(func) == IF func.outputs # <<>> THEN func.outputs[1].type ELSE "void"

JavaMethod(func) ==
    <<"    // " \o func.description,
      "    " \o (IF func.modifiers # <<>> THEN str_join(" ", func.modifiers) ELSE "public")
             \o " " \o java_return_type(func) \o " " \o func.name \o "("
             \o str_join(", ", [i \in DOMAIN func.inputs |->
                                    func.inputs[i].type \o " " \o func.inputs[i].name])
             \o ") {">>
    \o LogicLine("        ", "//", func)
    \o <<"        // TODO: Implement">>
    \o (IF java_return_type(func) # "void" THEN <<"        return null;">> ELSE <<>>)
    \o <<"    }", "">>

JavaModule(ir, module) ==
    <<"// " \o module.description,
      "// Original: " \o ir.original_filename,
      "// Suggested: " \o ir.suggested_filename,
      "public class " \o module.name \o " {",
      "">>
    \o [i \in DOMAIN module.attributes |->
            "    private " \o module.attributes[i].type \o " " \o module.attributes[i].name
            \o "; // " \o or_else(module.attributes[i].description, "")]
    \o (IF module.attributes # <<>> THEN <<"">> ELSE <<>>)
    \o Flatten([f \in DOMAIN module.functions |-> JavaMethod(module.functions[f])])
    \o <<"}">>

PythonFunction(indent, leading, func) ==
    <<indent \o "def " \o func.name \o "("
        \o str_join(", ", leading \o ParamNames(func)) \o "):",
      indent \o "    \"\"\"" \o func.description \o "\"\"\"">>
    \o LogicLine(indent \o "    ", "#", func)
    \o <<indent \o "    # TODO: Implement",
         indent \o "    pass",
         "">>

PythonModule(ir, module) ==
    <<"\"\"\"",
      module.description,
      "Original: " \o ir.original_filename,
      "Suggested: " \o ir.suggested_filename,
      "\"\"\"",
      "">>
    \o (IF module.type = "class"
        THEN <<"class " \o module.name \o ":",
               "    \"\"\"" \o module.description \o "\"\"\"",
               "">>
             \o (IF module.attributes # <<>>
                 THEN <<"    def __init__(self):">>
                      \o [i \in DOMAIN module.attributes |->
                            "        self." \o module.attributes[i].name \o ": "
                            \o module.attributes[i].type \o " = None  # "
                            \o or_else(module.attributes[i].description, "")]
                      \o <<"">>
                 ELSE <<>>)
             \o Flatten([f \in DOMAIN module.functions |->
                            PythonFunction("    ", <<"self">>, module.functions[f])])
        ELSE Flatten([f \in DOMAIN module.functions |->
                            PythonFunction("", <<>>, module.functions[f])]))

JavascriptModule(ir, module) ==
    <<"// " \o module.description,
      "// Original: " \o ir.original_filename,
      "// Suggested: " \o ir.suggested_filename,
      "">>
    \o (IF module.type = "class"
        THEN <<"class " \o module.name \o " {">>
             \o Flatten([f \in DOMAIN module.functions |->
                    <<"  // " \o module.functions[f].description,
                      "  " \o module.functions[f].name \o "("
                        \o str_join(", ", ParamNames(module.functions[f])) \o ") {">>
                    \o LogicLine("    ", "//", module.functions[f])
                    \o <<"    // TODO: Implement", "  }", "">>])
             \o <<"}">>
        ELSE Flatten([f \in DOMAIN module.functions |->
                    <<"// " \o module.functions[f].description,
                      "function " \o module.functions[f].name \o "("
                        \o str_join(", ", ParamNames(module.functions[f])) \o ") {">>
                    \o LogicLine("  ", "//", module.functions[f])
                    \o <<"  // TODO: Implement", "}", "">>]))

\* the lines generate_code_skeleton appends for one module
SkeletonModule(ir, module) ==
    CASE ir.language = "java" -> JavaModule(ir, module)
      [] ir.language = "python" -> PythonModule(ir, module)
      [] ir.language = "javascript" -> JavascriptModule(ir, module)
      [] OTHER -> <<>>

generate_code_skeleton(ir) ==
    str_join("\n", Flatten([m \in DOMAIN ir.modules |-> SkeletonModule(ir, ir.modules[m])]))

(***************************************************************************)
(* pydantic: BaseModel.model_dump_json, as the JSON document it writes.    *)
(***************************************************************************)
dump_opt(opt) == IF opt = <<>> THEN JNull ELSE JStr(opt[1])
dump_strs(strs) == JArr([i \in DOMAIN strs |-> JStr(strs[i])])

dump_IOType(io) ==
    JObj([name |-> JStr(io.name), type |-> JStr(io.type),
          description |-> dump_opt(io.description)])

dump_DecisionPoint(dec) ==
    JObj([condition |-> JStr(dec.condition), description |-> dump_opt(dec.description)])

dump_FunctionIR(func) ==
    JObj([name |-> JStr(func.name),
          description |-> JStr(func.description),
          inputs |-> JArr([i \in DOMAIN func.inputs |-> dump_IOType(func.inputs[i])]),
          outputs |-> JArr([i \in DOMAIN func.outputs |-> dump_IOType(func.outputs[i])]),
          modifiers |-> dump_strs(func.modifiers),
          side_effects |-> dump_strs(func.side_effects),
          decisions |-> JArr([i \in DOMAIN func.decisions |->
                                dump_DecisionPoint(func.decisions[i])]),
          exceptions |-> dump_strs(func.exceptions),
          dependencies |-> dump_strs(func.dependencies),
          business_logic |-> dump_opt(func.business_logic)])

dump_ModuleIR(module) ==
    JObj([name |-> JStr(module.name),
          type |-> JStr(module.type),
          description |-> JStr(module.description),
          imports |-> dump_strs(module.imports),
          functions |-> JArr([i \in DOMAIN module.functions |->
                                dump_FunctionIR(module.functions[i])]),
          attributes |-> JArr([i \in DOMAIN module.attributes |->
                                dump_IOType(module.attributes[i])]),
          design_patterns |-> dump_strs(module.design_patterns)])

dump_TechnicalDebt(debt) ==
    JObj([category |-> JStr(debt.category),
          description |-> JStr(debt.description),
          severity |-> JStr(debt.severity),
          recommendation |-> JStr(debt.recommendation)])

model_dump_json(ir) ==
    JObj([language |-> JStr(ir.language),
          original_filename |-> JStr(ir.original_filename),
          suggested_filename |-> JStr(ir.suggested_filename),
          summary |-> JStr(ir.summary),
          modules |-> JArr([i \in DOMAIN ir.modules |-> dump_ModuleIR(ir.modules[i])]),
          technical_debt |-> JArr([i \in DOMAIN ir.technical_debt |->
                                      dump_TechnicalDebt(ir.technical_debt[i])]),
          dependencies |-> dump_strs(ir.dependencies),
          modernization_priority |-> dump_strs(ir.modernization_priority)])

(***************************************************************************)
(* The inputs of the renderers.  A ProjectIR is built from a language, a   *)
(* profile per module (its type, and whether it is a full module with      *)
(* MaxFunctions functions, attributes and design patterns or a bare one    *)
(* with a single entry-point function), the severities of its debt items   *)
(* and whether it has dependencies and a roadmap.                          *)
(***************************************************************************)
MaxRenderDebt == 4

Languages == {"python", "java", "javascript", "typescript", "cpp", "Python"}
ModuleProfiles ==
    {[type |-> "class", variant |-> "full"],
     [type |-> "module", variant |-> "full"],
     [type |-> "module", variant |-> "bare"],
     [type |-> "interface", variant |-> "bare"],
     [type |-> "abstract_class", variant |-> "full"]}
PatternNames == {"Singleton", "Factory"}
CategoryCycle ==
    <<"security", "performance", "maintainability", "scalability", "compatibility">>

RenderIOType(x) ==
    [name |-> "p" \o ToString(x),
     type |-> IF x % 2 = 1 THEN "int" ELSE "String",
     description |-> IF x % 2 = 1 THEN <<"a parameter">> ELSE <<>>]

RenderFunction(variant, f) ==
    [name |-> IF variant = "bare" THEN "runMain" ELSE "process" \o ToString(f),
     description |-> "function " \o ToString(f),
     inputs |-> [x \in 1..(f - 1) |-> RenderIOType(x)],
     outputs |-> [x \in 1..(f - 1) |-> RenderIOType(x + 1)],
     modifiers |-> IF f = 1 THEN <<>> ELSE <<"public", "static">>,
     side_effects |-> IF f = 1 THEN <<"writes a file">> ELSE <<>>,
     decisions |-> [x \in 1..(f - 1) |->
                        [condition |-> "c" \o ToString(x), description |-> <<>>]],
     exceptions |-> IF f = 1 THEN <<>> ELSE <<"IOError">>,
     dependencies |-> IF f = 1 THEN <<>> ELSE <<"os">>,
     business_logic |-> IF f = 1 THEN <<"rules">> ELSE <<>>]

RenderModule(m, profile) ==
    [name |-> "Module" \o ToString(m),
     type |-> profile.type,
     description |-> "module " \o ToString(m),
     imports |-> IF profile.variant = "full" THEN <<"os">> ELSE <<>>,
     functions |-> [f \in 1..(IF profile.variant = "full" THEN MaxFunctions ELSE 1) |->
                        RenderFunction(profile.variant, f)],
     attributes |-> IF profile.variant = "full"
                    THEN [x \in 1..2 |-> RenderIOType(x)] ELSE <<>>,
     design_patterns |-> IF profile.variant = "full"
                         THEN (IF m % 2 = 1 THEN <<"Singleton", "Factory">>
                               ELSE <<"Factory">>)
                         ELSE <<>>]

RenderDebt(i, severity) ==
    [category |-> CategoryCycle[((i - 1) % 5) + 1],
     description |-> IF i = 1
                     THEN "global mutable state shared by every request handler of the service"
                     ELSE "d" \o ToString(i),
     severity |-> severity,
     recommendation |-> "fix " \o ToString(i)]

RenderIR(lang, profiles, severities, extras) ==
    [language |-> lang,
     original_filename |-> "main.py",
     suggested_filename |-> "order_service.py",
     summary |-> "an order system",
     modules |-> [m \in DOMAIN profiles |-> RenderModule(m, profiles[m])],
     technical_debt |-> [i \in DOMAIN severities |-> RenderDebt(i, severities[i])],
     dependencies |-> IF extras THEN <<"requests", "numpy">> ELSE <<>>,
     modernization_priority |-> IF extras THEN <<"types", "tests">> ELSE <<>>]

\* the languages rendered with IRs of several modules
ManyModuleLanguages == {"python", "java", "cpp"}

\* a text of n characters
RECURSIVE Filler(_)
Filler(n) ==
    IF n = 0 THEN ""
    ELSE IF n % 2 = 0 THEN Filler(n \div 2) \o Filler(n \div 2)
    ELSE "x" \o Filler(n - 1)

ShortCode == "var v = new Vector(); print(v)\n"
CodeTexts ==
    {"", ShortCode, "x = 1\ny = 2\n"}
    \cup {"a" \o Filler(n - 2) \o "z" :
              n \in {ListingLimit - 1, ListingLimit, ListingLimit + 1, ListingLimit + 500}}

\* the orders a process may hash the pattern names in
Seeds == {<<"Singleton", "Factory">>, <<"Factory", "Singleton">>}

(***************************************************************************)
(* Specification of the renderers: one set of inputs, and one renderer     *)
(* applied to it; the document generator may be applied a second time, in  *)
(* the same process or in a new one.                                       *)
(***************************************************************************)
InitRender ==
    /\ \/ \E lang \in Languages, profiles \in SeqsUpTo(ModuleProfiles, MaxModules) :
            /\ lang \in ManyModuleLanguages \/ Len(profiles) <= 1
            /\ render_ir = RenderIR(lang, profiles, <<"high">>, TRUE)
            /\ original_code = ShortCode
            /\ modern_code = "x = 1\ny = 2\n"
       \/ \E severities \in SeqsUpTo(DebtSeverities, MaxRenderDebt) :
            /\ render_ir = RenderIR("python", <<[type |-> "module", variant |-> "bare"]>>,
                                    severities, TRUE)
            /\ original_code = ShortCode
            /\ modern_code = "x = 1\ny = 2\n"
       \/ \E lang \in {"python", "cpp"}, severities \in SeqsUpTo(DebtSeverities, 1) :
            /\ render_ir = RenderIR(lang, <<[type |-> "module", variant |-> "bare"]>>,
                                    severities, FALSE)
            /\ original_code = ShortCode
            /\ modern_code = "x = 1\ny = 2\n"
       \/ \E lang \in {"python", "cpp"} :
            /\ render_ir = RenderIR(lang, <<[type |-> "class", variant |-> "full"]>>,
                                    <<>>, FALSE)
            /\ original_code \in CodeTexts
            /\ modern_code \in CodeTexts
    /\ hash_seed = <<"Singleton", "Factory">>
    /\ summary_text = "typed and tested"
    /\ documentation = NotCalled
    /\ earlier = NotCalled
    /\ skeleton = NotCalled
    /\ markdown = NotCalled
    /\ revalidated = Pending
    /\ payload = JNull
    /\ validation = Pending
    /\ TextIdle
    /\ BatchIdle

NoRenderYet ==
    /\ documentation = NotCalled
    /\ skeleton = NotCalled
    /\ markdown = NotCalled
    /\ revalidated = Pending

Called(value) == [status |-> "ok", value |-> value]

\* generate_comprehensive_documentation, a first and a second time
GenerateDocumentation ==
    /\ skeleton = NotCalled /\ markdown = NotCalled /\ revalidated = Pending
    /\ earlier = NotCalled
    /\ documentation' = Called(generate_master_documentation(
                            render_ir, original_code, modern_code, summary_text, hash_seed))
    /\ earlier' = documentation
    /\ UNCHANGED <<render_ir, original_code, modern_code, summary_text, hash_seed,
                   skeleton, markdown, revalidated, validateVars, textVars, batchVars>>

\* the program is run again: a new process, whose hashing of strings differs
NewProcess ==
    /\ documentation # NotCalled
    /\ earlier = NotCalled
    /\ hash_seed' \in Seeds \ {hash_seed}
    /\ UNCHANGED <<render_ir, original_code, modern_code, summary_text, documentation,
                   earlier, skeleton, markdown, revalidated, validateVars, textVars,
                   batchVars>>

GenerateSkeleton ==
    /\ NoRenderYet
    /\ skeleton' = Called(generate_code_skeleton(render_ir))
    /\ UNCHANGED <<render_ir, original_code, modern_code, summary_text, hash_seed,
                   documentation, earlier, markdown, revalidated, validateVars, textVars,
                   batchVars>>

GenerateMarkdown ==
    /\ NoRenderYet
    /\ markdown' = Called(generate_markdown_from_ir(render_ir))
    /\ UNCHANGED <<render_ir, original_code, modern_code, summary_text, hash_seed,
                   documentation, earlier, skeleton, revalidated, validateVars, textVars,
                   batchVars>>

\* the IR written as JSON and validated again
Revalidate ==
    /\ NoRenderYet
    /\ revalidated' = model_validate(model_dump_json(render_ir))
    /\ UNCHANGED <<render_ir, original_code, modern_code, summary_text, hash_seed,
                   documentation, earlier, skeleton, markdown, validateVars, textVars,
                   batchVars>>

NextRender ==
    GenerateDocumentation \/ NewProcess \/ GenerateSkeleton \/ GenerateMarkdown
        \/ Revalidate

SpecRender == InitRender /\ [][NextRender]_vars


(***************************************************************************)
(* Claims about the schema validator (checked under SpecValidate).         *)
(***************************************************************************)
Validated == validation.status # "pending"

\* the elements of the list under key k, <<>> when j holds no such list
Elems(j, k) ==
    IF j.t = "obj" /\ Has(j, k) /\ j.v[k].t = "arr" THEN j.v[k].v ELSE <<>>

\* every key of `keys` is a member of the object j
Present(j, keys) == j.t = "obj" /\ keys \subseteq DOMAIN j.v

\* the fields of the document other than `modules` satisfy the schema
OtherFieldsValid(j) ==
    /\ j.t = "obj"
    /\ \A k \in {"language", "original_filename", "suggested_filename", "summary"} :
            StrField(j, k)
    /\ DebtListField(j, "technical_debt")
    /\ StrListField(j, "dependencies")
    /\ StrListField(j, "modernization_priority")

EmptyModules(j) ==
    j.t = "obj" /\ Has(j, "modules") /\ j.v["modules"] = JArr(<<>>)

ForeignEnum(j) ==
    \/ \E i \in DOMAIN Elems(j, "modules") :
          LET m == Elems(j, "modules")[i] IN
            /\ m.t = "obj" /\ StrField(m, "type")
            /\ m.v["type"].v \notin {"class", "module", "interface", "abstract_class"}
    \/ \E i \in DOMAIN Elems(j, "technical_debt") :
          LET d == Elems(j, "technical_debt")[i] IN
            /\ d.t = "obj"
            /\ \/ /\ StrField(d, "category")
                  /\ d.v["category"].v \notin
                        {"performance", "security", "maintainability",
                         "scalability", "compatibility"}
               \/ /\ StrField(d, "severity")
                  /\ d.v["severity"].v \notin {"low", "medium", "high", "critical"}

\* C2: in a ProjectIR returned by validation every module type, debt category
\* and debt severity is a member of its closed set, and a document holding
\* another value in one of these fields, at any position, fails validation.
C2_ClosedEnums ==
    Validated =>
        /\ validation.status = "ok" =>
            /\ \A i \in DOMAIN validation.ir.modules :
                  validation.ir.modules[i].type \in
                      {"class", "module", "interface", "abstract_class"}
            /\ \A i \in DOMAIN validation.ir.technical_debt :
                  /\ validation.ir.technical_debt[i].category \in
                        {"performance", "security", "maintainability",
                         "scalability", "compatibility"}
                  /\ validation.ir.technical_debt[i].severity \in
                        {"low", "medium", "high", "critical"}
        /\ ForeignEnum(payload) => validation.status = "ValidationError"

\* a foreign module type in the last of several modules is rejected
C2_Witness ==
    /\ validation.status = "ValidationError"
    /\ Len(Elems(payload, "modules")) = MaxModules
    /\ LET m == Elems(payload, "modules")[MaxModules] IN
          /\ m.t = "obj" /\ StrField(m, "type") /\ m.v["type"].v = "enum"

\* every required field is a member of its object, at every nesting level
IOTypesComplete(j, k) ==
    \A i \in DOMAIN Elems(j, k) : Present(Elems(j, k)[i], {"name", "type"})

FunctionComplete(f) ==
    /\ Present(f, {"name", "description"})
    /\ IOTypesComplete(f, "inputs")
    /\ IOTypesComplete(f, "outputs")
    /\ \A i \in DOMAIN Elems(f, "decisions") :
          Present(Elems(f, "decisions")[i], {"condition"})

ModuleComplete(m) ==
    /\ Present(m, {"name", "type", "description"})
    /\ \A i \in DOMAIN Elems(m, "functions") :
          FunctionComplete(Elems(m, "functions")[i])
    /\ IOTypesComplete(m, "attributes")

DocumentComplete(j) ==
    /\ Present(j, {"language", "original_filename", "suggested_filename",
                   "summary", "modules"})
    /\ \A i \in DOMAIN Elems(j, "modules") : ModuleComplete(Elems(j, "modules")[i])
    /\ \A i \in DOMAIN Elems(j, "technical_debt") :
          Present(Elems(j, "technical_debt")[i],
                  {"category", "description", "severity", "recommendation"})

\* the returned model has as many elements as the document, level by level
SameExtent(ir, j) ==
    /\ Len(ir.modules) = Len(Elems(j, "modules"))
    /\ Len(ir.technical_debt) = Len(Elems(j, "technical_debt"))
    /\ \A i \in DOMAIN ir.modules :
          LET m == Elems(j, "modules")[i] IN
            /\ Len(ir.modules[i].functions) = Len(Elems(m, "functions"))
            /\ Len(ir.modules[i].attributes) = Len(Elems(m, "attributes"))
            /\ \A n \in DOMAIN ir.modules[i].functions :
                  LET f == Elems(m, "functions")[n] IN
                    /\ Len(ir.modules[i].functions[n].inputs) = Len(Elems(f, "inputs"))
                    /\ Len(ir.modules[i].functions[n].outputs) = Len(Elems(f, "outputs"))
                    /\ Len(ir.modules[i].functions[n].decisions)
                            = Len(Elems(f, "decisions"))

\* C3: validation is all-or-nothing: it returns a ProjectIR only of a document
\* in which every required field is present at every nesting level (and the
\* ProjectIR covers the whole document), and otherwise fails without
\* producing any ProjectIR.
C3_AllOrNothing ==
    Validated =>
        /\ validation.status \in {"ok", "ValidationError"}
        /\ validation.status = "ok" =>
                (DocumentComplete(payload) /\ SameExtent(validation.ir, payload))
        /\ validation.status = "ValidationError" => validation.ir = NoIR
        /\ ~DocumentComplete(payload) => validation.status = "ValidationError"

\* the last function of the last module lacks a required field, the rest of
\* the document is complete, and validation failed as a whole
C3_Witness ==
    /\ validation.status = "ValidationError"
    /\ validation.ir = NoIR
    /\ Len(Elems(payload, "modules")) = MaxModules
    /\ LET m == Elems(payload, "modules")[MaxModules] IN
          /\ Len(Elems(m, "functions")) = MaxFunctions
          /\ ~Present(Elems(m, "functions")[MaxFunctions], {"description"})
          /\ \A n \in 1..(MaxFunctions - 1) : FunctionComplete(Elems(m, "functions")[n])
    /\ \A i \in 1..(MaxModules - 1) : ModuleComplete(Elems(payload, "modules")[i])

(***************************************************************************)
(* Claims about the text functions (checked under SpecText).               *)
(***************************************************************************)
Parsed == modernization # NotCalled

\* what json.loads makes of the response once trimmed and fence-stripped
Structured == json_loads(StripFences(raw))

DefaultFilename == JStr("modernized_code.txt")
DefaultSummary == JStr("Code modernized")
FallbackSummary == JStr("Modernization completed (no structured response)")

\* C4: a response that, fence-stripped, parses as a JSON object without the
\* key modernized_code makes the parser fail with the missing-field error
\* and return nothing, whichever of filename and changes_summary it holds.
C4_MissingFieldFails ==
    (Parsed /\ Structured.ok /\ Structured.value.t = "obj"
        /\ "modernized_code" \notin DOMAIN Structured.value.v) =>
        /\ modernization.status = "ValueError"
        /\ modernization.message = <<"Missing 'modernized_code' field">>
        /\ modernization.result = JNull

\* the response {"filename": "x.py"} inside a fence
C4_Witness ==
    /\ Parsed
    /\ raw = <<Fence, Word, Newline, "{fn}", Newline, Fence>>
    /\ modernization.status = "ValueError"

\* C5 as stated: when the response is not parseable as JSON the result holds
\* the entire raw input verbatim as modernized_code, with the default
\* filename and the fallback summary.
C5_FallbackVerbatim ==
    (Parsed /\ ~Structured.ok) =>
        /\ modernization.status = "ok"
        /\ modernization.result =
              JObj([modernized_code |-> JStr(Concat(raw)),
                    filename |-> DefaultFilename,
                    changes_summary |-> FallbackSummary])

\* the raw text without surrounding whitespace and, when what is left opens
\* with a fence, without its first line and without a closing line that is
\* a bare fence
RECURSIVE FirstNewline(_, _)
FirstNewline(s, i) ==
    IF i > Len(s) THEN 0 ELSE IF s[i] = Newline THEN i ELSE FirstNewline(s, i + 1)

RECURSIVE LastNewline(_, _)
LastNewline(s, i) ==
    IF i = 0 THEN 0 ELSE IF s[i] = Newline THEN i ELSE LastNewline(s, i - 1)

Unfenced(text) ==
    LET t == strip(text) IN
    IF t = <<>> \/ t[1] # Fence THEN t
    ELSE IF FirstNewline(t, 1) = 0 THEN <<>>
    ELSE LET rest == SubSeq(t, FirstNewline(t, 1) + 1, Len(t))
             cut == LastNewline(rest, Len(rest))
             last == SubSeq(rest, cut + 1, Len(rest))
         IN IF strip(last) = <<Fence>> THEN SubSeq(rest, 1, cut - 1) ELSE rest

\* C5 as amended: when the trimmed, fence-stripped response is not parseable
\* as JSON the result holds that trimmed, fence-stripped text (not the raw
\* input) as modernized_code, with the default filename and the fallback
\* summary.
C5_FallbackStripped ==
    (Parsed /\ ~Structured.ok) =>
        /\ modernization.status = "ok"
        /\ modernization.result =
              JObj([modernized_code |-> JStr(Concat(Unfenced(raw))),
                    filename |-> DefaultFilename,
                    changes_summary |-> FallbackSummary])

\* a fenced response that is not JSON: the fence lines and the outer
\* whitespace are not part of the code returned
C5_Witness ==
    /\ Parsed
    /\ raw = <<Newline, Space, Fence, Word, Newline, Word, Newline, Fence>>
    /\ modernization.status = "ok"
    /\ modernization.result.v.modernized_code = JStr("json")
    /\ modernization.result.v.modernized_code # JStr(Concat(raw))

\* C6: a response that parses as a JSON object holding modernized_code is
\* returned with that modernized_code, its filename or else the default
\* file name, its changes_summary or else the default summary; the absence
\* of the two cosmetic fields is no failure.
C6_StructuredDefaults ==
    (Parsed /\ Structured.ok /\ Structured.value.t = "obj"
        /\ "modernized_code" \in DOMAIN Structured.value.v) =>
        /\ modernization.status = "ok"
        /\ modernization.result.t = "obj"
        /\ modernization.result.v.modernized_code = Structured.value.v.modernized_code
        /\ modernization.result.v.filename =
              IF "filename" \in DOMAIN Structured.value.v
              THEN Structured.value.v.filename ELSE DefaultFilename
        /\ modernization.result.v.changes_summary =
              IF "changes_summary" \in DOMAIN Structured.value.v
              THEN Structured.value.v.changes_summary ELSE DefaultSummary

\* only modernized_code is given: both defaults are substituted
C6_Witness ==
    /\ Parsed
    /\ Structured.ok
    /\ Structured.value = ObjectOf({"modernized_code"})
    /\ modernization.status = "ok"
    /\ modernization.result.v.filename = DefaultFilename
    /\ modernization.result.v.changes_summary = DefaultSummary

Elements(s) == {s[i] : i \in DOMAIN s}

\* C7 as stated: the failure the normalizer raises on text that is not JSON
\* carries the parser's message and the first 500 characters of the raw input.
C7_MalformedCarriesRaw ==
    (cleaned # NotCalled /\ cleaned.status # "ok") =>
        /\ Structured.msg \in Elements(cleaned.message)
        /\ Snippet(raw) \in Elements(cleaned.message)

\* C7 as amended: the failure the normalizer raises on text that is not JSON
\* carries the parser's message and nothing of the raw input.
C7_MalformedCarriesParserMessage ==
    (cleaned # NotCalled /\ cleaned.status # "ok") =>
        /\ cleaned.status = "ValueError"
        /\ cleaned.message = <<"LLM did not return valid JSON: ", Structured.msg>>
        /\ Snippet(raw) \notin Elements(cleaned.message)

C7_Witness ==
    /\ cleaned # NotCalled
    /\ raw = <<Fence, Word, Newline, "{mc}", "7", Newline, Fence>>
    /\ Snippet(raw) = Concat(raw)
    /\ cleaned.status = "ValueError"
    /\ cleaned.message = <<"LLM did not return valid JSON: ", "Extra data">>

Analysed == analysis # NotCalled

\* the type of the failure a schema-invalid response ends in
SchemaFailureType == structured_analysis(<<"{ir:enum}">>).status

\* C8 as stated: a response that is not JSON and a response that is JSON but
\* violates the schema end in failures of two different types.
C8_DistinctFailureTypes ==
    (Analysed /\ ~Structured.ok) =>
        /\ analysis.status # "ok"
        /\ analysis.status # SchemaFailureType

\* C8 as amended: both failures are a ValueError; they differ in the text of
\* the message only, which begins "LLM did not return valid JSON: " for a
\* response that is not JSON and "LLM output failed schema validation: " for
\* one that violates the schema.
C8_SameTypeDistinctMessage ==
    Analysed =>
        /\ ~Structured.ok =>
              /\ analysis.status = "ValueError"
              /\ analysis.message[1] = "LLM did not return valid JSON: "
        /\ (Structured.ok /\ ~ProjectIRValid(Structured.value)) =>
              /\ analysis.status = "ValueError"
              /\ analysis.message[1] = "LLM output failed schema validation: "
        /\ (Structured.ok /\ ProjectIRValid(Structured.value)) =>
              analysis.status = "ok"

C8_Witness ==
    /\ Analysed
    /\ Structured.ok
    /\ Structured.value = LexemeValue["{ir:field}"]
    /\ analysis.status = "ValueError"
    /\ analysis.status = structured_analysis(<<Word>>).status
    /\ analysis.message[1] # structured_analysis(<<Word>>).message[1]

\* C9 as stated: the normalizer applied to its own output succeeds and
\* returns that output unchanged, and on fence-free text it returns the text
\* trimmed.
C9_Idempotent ==
    /\ recleaned # NotCalled =>
          (recleaned.status = "ok" /\ recleaned.text = cleaned.text)
    /\ (cleaned # NotCalled /\ cleaned.status = "ok" /\ Fence \notin Elements(raw)) =>
          cleaned.text = strip(raw)

\* C9 as amended: the normalizer applied to its own output succeeds and
\* returns that output with surrounding whitespace trimmed (the first
\* application keeps whitespace inside the fence), and on fence-free text on
\* which it succeeds it returns the text trimmed.
C9_IdempotentUpToTrim ==
    /\ recleaned # NotCalled =>
          /\ recleaned.status = "ok"
          /\ recleaned.text = strip(cleaned.text)
          /\ clean_json_response(recleaned.text).text = recleaned.text
    /\ (cleaned # NotCalled /\ cleaned.status = "ok" /\ Fence \notin Elements(raw)) =>
          cleaned.text = strip(raw)

\* whitespace inside the fence survives the first application only
C9_Witness ==
    /\ recleaned # NotCalled
    /\ raw = <<Fence, Word, Newline, Space, "{ir}", Newline, Fence>>
    /\ cleaned.text = <<Space, "{ir}">>
    /\ recleaned.text = <<"{ir}">>

(***************************************************************************)
(* Claims about the batch loop (checked under Spec).                       *)
(***************************************************************************)
\* C10: a failure in any stage of one file's pipeline aborts that file only:
\* no exception ends the loop, the loop goes on until every file has been
\* attempted, and every file whose three stages succeeded is in the results.
C10_FailureIsolated ==
    /\ pc # "crashed"
    /\ pc # "done" => ENABLED Next
    /\ pc = "done" => attempted = 1..Len(files_to_process)
    /\ pc \in {"loop", "done"} =>
          /\ Len(all_results) = Len(stored)
          /\ \A k \in stages_ok : \E n \in DOMAIN stored : stored[n] = k
          /\ \A n \in DOMAIN stored :
                /\ stored[n] \in stages_ok
                /\ all_results[n].original_filename = files_to_process[stored[n]].filename
                /\ all_results[n].folder = files_to_process[stored[n]].folder

\* the first file failed, the second was still processed and is the result
C10_Witness ==
    /\ pc = "done"
    /\ Len(files_to_process) = 2
    /\ reported # <<>>
    /\ reported[1][1] = 1
    /\ stored = <<2>>

(***************************************************************************)
(* Claims about the renderers (checked under SpecRender).                  *)
(***************************************************************************)
Documented == documentation # NotCalled
MasterDoc == documentation.value.master_doc
ModularDocs == documentation.value.modular_docs

\* the positions at which sub occurs in text
Occurrences(text, sub) ==
    {i \in 1..(Len(text) - Len(sub) + 1) : SubSeq(text, i, i + Len(sub) - 1) = sub}

\* C11: the document renderer is deterministic: two invocations of
\* generate_master_documentation on the same four inputs, in the same run of the
\* program or in two runs, give the same document names and the same contents,
\* the order of the design patterns in ARCHITECTURE.md included.
C11_Deterministic ==
    (documentation # NotCalled /\ earlier # NotCalled) => documentation = earlier

SectionHeadings ==
    <<"## 1. Metadata & Environment",
      "## 2. Modernized Code Architecture",
      "## 3. Proposed Folder Structure",
      "## 4. Legacy vs Modern: Side-by-Side Comparison",
      "## 5. Complete Code Transformation",
      "## 6. Technical Debt Addressed",
      "## 7. Execution Guide",
      "## 8. Validation Checklist",
      "## 9. Modernization Roadmap">>

\* the positions at which a line of text starts
LineStarts(text) ==
    {1} \cup {i + 1 : i \in {j \in 1..Len(text) : SubSeq(text, j, j) = "\n"}}

\* the starts, among the given ones, of the lines of text that read `line`
LinesReading(text, starts, line) ==
    {i \in starts : /\ i + Len(line) <= Len(text)
                    /\ SubSeq(text, i, i + Len(line)) = line \o "\n"}

\* where the heading of each section stands as a line of the master document
HeadingsAt ==
    CHOOSE at \in {
        <<LinesReading(MasterDoc, starts, SectionHeadings[1]),
          LinesReading(MasterDoc, starts, SectionHeadings[2]),
          LinesReading(MasterDoc, starts, SectionHeadings[3]),
          LinesReading(MasterDoc, starts, SectionHeadings[4]),
          LinesReading(MasterDoc, starts, SectionHeadings[5]),
          LinesReading(MasterDoc, starts, SectionHeadings[6]),
          LinesReading(MasterDoc, starts, SectionHeadings[7]),
          LinesReading(MasterDoc, starts, SectionHeadings[8]),
          LinesReading(MasterDoc, starts, SectionHeadings[9])>> :
            starts \in {LineStarts(MasterDoc)}} : TRUE

SectionExpected(k) ==
    CASE k = 6 -> render_ir.technical_debt # <<>>
      [] k = 9 -> render_ir.modernization_priority # <<>>
      [] OTHER -> TRUE

\* C12: the master document of every valid ProjectIR has its numbered sections
\* in increasing order; sections 1, 2, 3, 4, 5, 7 and 8 are always there, section
\* 6 exactly when technical_debt is non-empty and section 9 exactly when
\* modernization_priority is non-empty; generation succeeds.
C12_SectionsInOrder ==
    Documented =>
        \E at \in {HeadingsAt} :
            /\ documentation.status = "ok"
            /\ \A k \in 1..9 : Cardinality(at[k]) = IF SectionExpected(k) THEN 1 ELSE 0
            /\ \A k \in 1..9, l \in 1..9 :
                  (k < l /\ SectionExpected(k) /\ SectionExpected(l)) =>
                      \A i \in at[k], j \in at[l] : i < j

\* the minimal IR (one module of type module, one function without inputs or
\* outputs, no debt, no dependencies): generated, sections 6 and 9 left out
C12_Witness ==
    /\ Documented
    /\ render_ir = RenderIR("python", <<[type |-> "module", variant |-> "bare"]>>,
                            <<>>, FALSE)
    /\ \E at \in {HeadingsAt} :
          at[5] # {} /\ at[6] = {} /\ at[7] # {} /\ at[8] # {} /\ at[9] = {}

\* C13: the modular documents of every valid ProjectIR are exactly README.md,
\* ARCHITECTURE.md, MIGRATION_GUIDE.md, API_REFERENCE.md and TESTING_GUIDE.md,
\* and TECHNICAL_DEBT.md if and only if technical_debt is non-empty.
C13_ModularNames ==
    Documented =>
        /\ {"README.md", "ARCHITECTURE.md", "MIGRATION_GUIDE.md", "API_REFERENCE.md",
            "TESTING_GUIDE.md"} \subseteq DOMAIN ModularDocs
        /\ DOMAIN ModularDocs \subseteq
              {"README.md", "ARCHITECTURE.md", "MIGRATION_GUIDE.md", "API_REFERENCE.md",
               "TESTING_GUIDE.md", "TECHNICAL_DEBT.md"}
        /\ "TECHNICAL_DEBT.md" \in DOMAIN ModularDocs <=> render_ir.technical_debt # <<>>

\* an IR without debt rendered: five documents, no TECHNICAL_DEBT.md
C13_Witness ==
    /\ Documented
    /\ render_ir.technical_debt = <<>>
    /\ Cardinality(DOMAIN ModularDocs) = 5
    /\ "TECHNICAL_DEBT.md" \notin DOMAIN ModularDocs


\* the place of a severity in the order critical, high, medium, low
SeverityRank(severity) ==
    CASE severity = "critical" -> 1
      [] severity = "high" -> 2
      [] severity = "medium" -> 3
      [] severity = "low" -> 4

SeverityHeading(severity, glyphs) ==
    "### "
    \o (IF glyphs
        THEN (CASE severity = "critical" -> Glyph("red") \o " "
                [] severity = "high" -> Glyph("orange") \o " "
                [] severity = "medium" -> Glyph("yellow") \o " "
                [] severity = "low" -> Glyph("green") \o " ")
        ELSE "")
    \o (CASE severity = "critical" -> "CRITICAL"
          [] severity = "high" -> "HIGH"
          [] severity = "medium" -> "MEDIUM"
          [] severity = "low" -> "LOW")
    \o " Priority"

\* the line that shows a debt item: "**Issue:** ..." in the master document and
\* in TECHNICAL_DEBT.md, "**<Category>:** ..." in the markdown analysis
DebtLine(debt, glyphs) ==
    IF glyphs THEN "**Issue:** " \o debt.description
    ELSE "**" \o title(debt.category) \o ":** " \o debt.description

\* where the items and the severity headings stand in a rendered text
DebtLayout(text, glyphs) ==
    CHOOSE layout \in
        {[items |-> [i \in DOMAIN render_ir.technical_debt |->
                        LinesReading(text, starts,
                                     DebtLine(render_ir.technical_debt[i], glyphs))],
          heads |-> [s \in DebtSeverities |->
                        LinesReading(text, starts, SeverityHeading(s, glyphs))]] :
            starts \in {LineStarts(text)}} : TRUE

\* the debt of render_ir is laid out in text by severity, stably, each item once
GroupedBySeverity(text, glyphs) ==
    \E at \in {DebtLayout(text, glyphs)} :
        LET debt == render_ir.technical_debt
        IN  /\ \A i \in DOMAIN debt : Cardinality(at.items[i]) = 1
            /\ \A s \in DebtSeverities :
                  Cardinality(at.heads[s]) =
                      IF \E i \in DOMAIN debt : debt[i].severity = s THEN 1 ELSE 0
            /\ \A i \in DOMAIN debt, j \in DOMAIN debt :
                  (\/ SeverityRank(debt[i].severity) < SeverityRank(debt[j].severity)
                   \/ (debt[i].severity = debt[j].severity /\ i < j)) =>
                      \A p \in at.items[i], q \in at.items[j] : p < q
            /\ \A i \in DOMAIN debt, s \in DebtSeverities :
                  \A p \in at.items[i], h \in at.heads[s] :
                      /\ SeverityRank(s) <= SeverityRank(debt[i].severity) => h < p
                      /\ SeverityRank(s) > SeverityRank(debt[i].severity) => p < h

\* C14: in the technical-debt section of the master document, in
\* TECHNICAL_DEBT.md and in the markdown analysis, the debt items are grouped by
\* severity in the order critical, high, medium, low, items of equal severity
\* keep their order in technical_debt, every item appears exactly once, and a
\* severity has a heading only if it has an item.
C14_GroupedBySeverity ==
    /\ Documented =>
          /\ GroupedBySeverity(MasterDoc, TRUE)
          /\ "TECHNICAL_DEBT.md" \in DOMAIN ModularDocs =>
                GroupedBySeverity(ModularDocs["TECHNICAL_DEBT.md"], TRUE)
    /\ markdown # NotCalled => GroupedBySeverity(markdown.value, FALSE)

C14_Severities == <<"low", "critical", "high", "critical">>

\* severities low, critical, high, critical rendered: items 2, 4, 3, 1
C14_Witness ==
    /\ markdown # NotCalled
    /\ Len(render_ir.technical_debt) = 4
    /\ \A i \in 1..4 : render_ir.technical_debt[i].severity = C14_Severities[i]
    /\ LET at == DebtLayout(markdown.value, FALSE)
       IN  /\ \A p \in at.items[2], q \in at.items[4] : p < q
           /\ \A p \in at.items[4], q \in at.items[3] : p < q
           /\ \A p \in at.items[3], q \in at.items[1] : p < q
           /\ at.heads["medium"] = {} /\ at.heads["critical"] # {}


\* text reads s from position p on
ReadsAt(text, p, s) ==
    /\ p + Len(s) - 1 <= Len(text)
    /\ SubSeq(text, p, p + Len(s) - 1) = s

\* the first three technical-debt categories joined by commas
FirstThreeCategories ==
    str_join(", ", [i \in 1..(IF Len(render_ir.technical_debt) < 3
                              THEN Len(render_ir.technical_debt) ELSE 3) |->
                       render_ir.technical_debt[i].category])

\* the narrative under "### Paradigm Shift": a template, then the Key Changes line
ParadigmNarrative(from, to) ==
    "### Paradigm Shift\n"
    \o "**From:** " \o from \o "\n"
    \o "**To:** " \o to \o "\n"
    \o "**Key Changes:** " \o FirstThreeCategories \o "\n"

NarratedAs(from, to) ==
    \E p \in LinesReading(MasterDoc, LineStarts(MasterDoc), "### Paradigm Shift") :
        ReadsAt(MasterDoc, p, ParadigmNarrative(from, to))

ProceduralNarrative ==
    NarratedAs("Procedural, script-based approach",
               "Modular, object-oriented architecture")

ClassNarrative ==
    NarratedAs("Monolithic class structure", "Service-oriented, modular design")

\* C15: the paradigm-shift narrative of every valid ProjectIR is exactly one of
\* the two templates (procedural to modular, monolithic class to service
\* oriented), chosen from the two signals (a function name containing "main",
\* a module of type class), followed by the Key Changes line with the first three
\* technical-debt categories; so for all four combinations of the signals.
C15_OneTemplate ==
    Documented =>
        /\ ProceduralNarrative # ClassNarrative
        /\ (has_procedural(render_ir) /\ ~has_classes(render_ir)) => ProceduralNarrative
        /\ (has_classes(render_ir) /\ ~has_procedural(render_ir)) => ClassNarrative


\* the languages the folder-structure and execution-guide renderers know
RecognisedLanguages == {"python", "java", "javascript", "typescript"}

\* some line of the master document reads `line`
HasLine(line) == LinesReading(MasterDoc, LineStarts(MasterDoc), line) # {}

\* the lines of section 7 that say something: neither a heading, nor blank, nor
\* the rule that closes the section
GuideContent ==
    LET starts == LineStarts(MasterDoc)
        from == LinesReading(MasterDoc, starts, SectionHeadings[7])
        to == LinesReading(MasterDoc, starts, SectionHeadings[8])
    IN  {s \in starts :
            /\ \E p \in from, q \in to : p < s /\ s < q
            /\ ~ReadsAt(MasterDoc, s, "\n")
            /\ ~ReadsAt(MasterDoc, s, "### Prerequisites\n")
            /\ ~ReadsAt(MasterDoc, s, "---\n")}

\* C16: the folder-structure renderer and the execution-guide renderer choose
\* their template from the language alone, and for a language that is not a
\* recognised one each emits a generic template: a non-empty folder layout and
\* a non-empty setup/run guide.
C16_GenericFallback ==
    Documented =>
        /\ HasLine("project/")
        /\ HasLine("|-- requirements.txt") <=> render_ir.language = "python"
        /\ HasLine("|-- pom.xml") <=> render_ir.language = "java"
        /\ HasLine("|-- package.json") <=> render_ir.language \in {"javascript", "typescript"}
        /\ HasLine("pip install -r requirements.txt") <=> render_ir.language = "python"
        /\ HasLine("mvn clean install") <=> render_ir.language = "java"
        /\ HasLine("npm install") <=> render_ir.language \in {"javascript", "typescript"}
        /\ render_ir.language \notin RecognisedLanguages =>
              /\ HasLine("|   '-- " \o render_ir.suggested_filename)
              /\ GuideContent # {}


SkeletonLanguages == {"java", "python", "javascript"}

Occurs(text, sub) == Occurrences(text, sub) # {}

\* every function of the IR has a stub in the text: its name with its parameter
\* list opened, and as many TODO placeholders as there are functions
StubForEveryFunction(text) ==
    /\ \A m \in DOMAIN render_ir.modules :
          \A f \in DOMAIN render_ir.modules[m].functions :
              Occurs(text, render_ir.modules[m].functions[f].name \o "(")
    /\ Cardinality(Occurrences(text, "TODO: Implement"))
          = SumOf([m \in DOMAIN render_ir.modules |-> Len(render_ir.modules[m].functions)])

\* every module of the IR is named in the text, in the order of the IR
EveryModuleNamed(text) ==
    /\ \A m \in DOMAIN render_ir.modules : Occurs(text, render_ir.modules[m].name)
    /\ \A m \in DOMAIN render_ir.modules, n \in DOMAIN render_ir.modules :
          m < n => \A p \in Occurrences(text, render_ir.modules[m].name),
                      q \in Occurrences(text, render_ir.modules[n].name) : p < q

\* C17: for a valid ProjectIR whose language is none of java, python and
\* javascript, generate_code_skeleton does not fail and emits a generic
\* skeleton with a stub for every module and function of the IR, not an empty
\* one.
C17_GenericSkeleton ==
    (skeleton # NotCalled /\ render_ir.language \notin SkeletonLanguages) =>
        /\ skeleton.status = "ok"
        /\ render_ir.modules # <<>> => skeleton.value # ""
        /\ EveryModuleNamed(skeleton.value)
        /\ StubForEveryFunction(skeleton.value)

\* an attribute declared as a field, in one of the forms of the three syntaxes
FieldDeclared(text, attr) ==
    \/ Occurs(text, "private " \o attr.type \o " " \o attr.name \o ";")
    \/ Occurs(text, "self." \o attr.name \o ": " \o attr.type)
    \/ Occurs(text, "this." \o attr.name)

\* C18: for a valid ProjectIR in java, python or javascript and whatever the
\* types of its modules, the skeleton has a declaration for every module, a stub
\* with a TODO placeholder for every function and a field declaration for every
\* attribute, in the order of the IR; nothing of the IR is missing.
C18_SkeletonComplete ==
    (skeleton # NotCalled /\ render_ir.language \in SkeletonLanguages) =>
        /\ skeleton.status = "ok"
        /\ EveryModuleNamed(skeleton.value)
        /\ StubForEveryFunction(skeleton.value)
        /\ \A m \in DOMAIN render_ir.modules :
              \A a \in DOMAIN render_ir.modules[m].attributes :
                  FieldDeclared(skeleton.value, render_ir.modules[m].attributes[a])


\* a listing opens with its heading, then the fence with the language
ListingOpening(heading) == heading \o "\n" \o Fence \o render_ir.language \o "\n"

\* the text of the master document between the line that opens a listing and
\* the line `next`, less the `closing` text that ends the listing; "<none>"
\* when the layout is another; starts are the line starts of the document
ListingUnder(starts, heading, next, closing) ==
    LET from == {p \in LinesReading(MasterDoc, starts, heading) :
                    ReadsAt(MasterDoc, p, ListingOpening(heading))}
        to == {q \in LinesReading(MasterDoc, starts, next) :
                    ReadsAt(MasterDoc, q - Len(closing), closing)}
    IN  IF Cardinality(from) = 1 /\ Cardinality(to) = 1
        THEN SubSeq(MasterDoc,
                    (CHOOSE p \in from : TRUE) + Len(ListingOpening(heading)),
                    (CHOOSE q \in to : TRUE) - Len(closing) - 1)
        ELSE "<none>"

\* the two listings of the master document
Listings ==
    CHOOSE both \in
        {[legacy |-> ListingUnder(starts, "### Legacy Code (Before)",
                                  "### Modern Code (After)", "\n" \o Fence \o "\n\n"),
          modern |-> ListingUnder(starts, "### Modern Code (After)",
                                  IF render_ir.technical_debt # <<>>
                                  THEN SectionHeadings[6] ELSE SectionHeadings[7],
                                  "\n" \o Fence \o "\n\n\n---\n\n")] :
            starts \in {LineStarts(MasterDoc)}} : TRUE

\* listing shows code: in full up to 2000 characters, else its first 2000
\* characters and the marker "..."
ShowsCode(listing, code) ==
    IF Len(code) <= 2000 THEN listing = code
    ELSE /\ Len(listing) = 2003
         /\ SubSeq(listing, 1, 2000) = SubSeq(code, 1, 2000)
         /\ SubSeq(listing, 2001, 2003) = "..."

\* C19: each of the two code listings of the master document is the first 2000
\* characters of its input text, followed by the marker "..." if and only if
\* the input is longer than 2000 characters; a text of at most 2000 characters
\* (of exactly 2000, the empty one) is shown in full without marker.
C19_ListingsTruncated ==
    Documented =>
        \E shown \in {Listings} :
            /\ ShowsCode(shown.legacy, original_code)
            /\ ShowsCode(shown.modern, modern_code)

\* a legacy text of 2500 characters cut to 2000 and marked, next to a modern
\* text of exactly 2000 characters shown in full
C19_Witness ==
    /\ Documented
    /\ Len(original_code) = 2500
    /\ Len(modern_code) = 2000
    /\ \E shown \in {Listings} :
          /\ Len(shown.legacy) = 2003
          /\ shown.modern = modern_code


\* C20: round trip: a ProjectIR written as JSON and validated again is accepted
\* and equal to the original field for field, the order of modules, functions,
\* inputs, outputs, decisions, technical_debt and modernization_priority kept.
C20_RoundTrip ==
    revalidated # Pending =>
        /\ revalidated.status = "ok"
        /\ revalidated.ir = render_ir

\* an IR of two modules of different types, with functions that have inputs,
\* outputs and decisions, descriptions that are None and descriptions that are
\* not, came back equal
C20_Witness ==
    /\ revalidated # Pending
    /\ revalidated.ir = render_ir
    /\ Len(render_ir.modules) >= 2
    /\ render_ir.modules[1].type # render_ir.modules[2].type
    /\ Len(render_ir.modules[1].functions) >= 2
    /\ render_ir.modules[1].functions[2].inputs # <<>>
    /\ render_ir.modules[1].functions[2].decisions[1].description = <<>>
    /\ render_ir.modules[1].attributes[1].description # <<>>
    /\ render_ir.modules[1].attributes[2].description = <<>>
    /\ render_ir.technical_debt # <<>>
    /\ Len(render_ir.modernization_priority) >= 2


(***************************************************************************)
(* Further claims about the schema validator (checked under SpecValidate). *)
(***************************************************************************)
\* a function of the document whose description is the empty string
EmptyDescription(fn) ==
    fn.t = "obj" /\ Has(fn, "description") /\ fn.v["description"] = JStr("")

\* the document with every empty function description filled in
FilledFunction(fn) ==
    IF EmptyDescription(fn)
    THEN JObj([fn.v EXCEPT !["description"] = JStr("a function")])
    ELSE fn

FilledModule(mo) ==
    IF mo.t = "obj" /\ Has(mo, "functions") /\ mo.v["functions"].t = "arr"
    THEN JObj([mo.v EXCEPT !["functions"] =
                  JArr([f \in DOMAIN mo.v["functions"].v |->
                            FilledFunction(mo.v["functions"].v[f])])])
    ELSE mo

Filled(j) ==
    IF j.t = "obj" /\ Has(j, "modules") /\ j.v["modules"].t = "arr"
    THEN JObj([j.v EXCEPT !["modules"] =
                  JArr([m \in DOMAIN j.v["modules"].v |->
                            FilledModule(j.v["modules"].v[m])])])
    ELSE j

SomeEmptyDescription(j) ==
    \E m \in DOMAIN Elems(j, "modules") :
        \E f \in DOMAIN Elems(Elems(j, "modules")[m], "functions") :
            EmptyDescription(Elems(Elems(j, "modules")[m], "functions")[f])

\* C21 as stated: every function of a ProjectIR returned by validation has a
\* non-empty description (a document with an empty one is rejected).
C21_DescriptionNonEmpty ==
    validation.status = "ok" =>
        \A m \in DOMAIN validation.ir.modules :
            \A f \in DOMAIN validation.ir.modules[m].functions :
                validation.ir.modules[m].functions[f].description # ""

\* C21 as amended: an empty function description does not make validation
\* fail: the document is accepted exactly when it would be with the description
\* filled in, and the ProjectIR returned holds every description as it stands
\* in the document, the empty string included; a description is rejected only
\* when it is missing or is not a string.
C21_EmptyDescriptionAccepted ==
    Validated =>
        /\ validation.status = model_validate(Filled(payload)).status
        /\ validation.status = "ok" =>
              \A m \in DOMAIN validation.ir.modules :
                  \A f \in DOMAIN validation.ir.modules[m].functions :
                      validation.ir.modules[m].functions[f].description
                          = payload.v["modules"].v[m].v["functions"].v[f].v["description"].v

C21_Witness ==
    /\ validation.status = "ok"
    /\ SomeEmptyDescription(payload)
    /\ \E m \in DOMAIN validation.ir.modules :
          \E f \in DOMAIN validation.ir.modules[m].functions :
              validation.ir.modules[m].functions[f].description = ""


(***************************************************************************)
(* Further claims about the response functions (checked under SpecText).   *)
(***************************************************************************)
\* the path _parse_modernization_response took on raw: the fallback when the
\* fence-stripped text is not JSON, the structured one when it is
TookFallback == ~json_loads(StripFences(raw)).ok

\* C22: the fallback of parse_modernization can be told from a structured
\* success by the result alone: a result whose changes_summary is the summary
\* of the fallback comes from the fallback path, never from a response that
\* parsed as JSON.
C22_FallbackDistinguishable ==
    (/\ Parsed
     /\ modernization.status = "ok"
     /\ modernization.result.t = "obj"
     /\ "changes_summary" \in DOMAIN modernization.result.v
     /\ modernization.result.v["changes_summary"] = FallbackSummary)
        => TookFallback


\* a record with the three fields, each a string
ModernizationRecord(result) ==
    /\ result.t = "obj"
    /\ DOMAIN result.v = {"modernized_code", "filename", "changes_summary"}
    /\ \A k \in DOMAIN result.v : result.v[k].t = "str"

MissingField ==
    /\ modernization.status = "ValueError"
    /\ modernization.message = <<"Missing 'modernized_code' field">>

\* C28: parse_modernization has three outcomes for every raw string: a record
\* of the fields modernized_code, filename and changes_summary (parsed or the
\* fallback), or the MissingField failure; so also when the fence-stripped
\* text is JSON that is no object (a number, a string, a list, null): no other
\* error, no value that is not such a record.
C28_ThreeOutcomes ==
    Parsed =>
        \/ modernization.status = "ok" /\ ModernizationRecord(modernization.result)
        \/ MissingField


(***************************************************************************)
(* Further claims about the batch loop (checked under Spec).               *)
(***************************************************************************)
\* the stages for which the model was called for the file at position k, in
\* the order of the calls
RECURSIVE CallsOf(_, _)
CallsOf(calls, k) ==
    IF calls = <<>> THEN <<>>
    ELSE (IF Head(calls)[1] = k THEN <<Head(calls)[2]>> ELSE <<>>)
         \o CallsOf(Tail(calls), k)

\* the positions whose pipeline has failed
Failed == {reported[n][1] : n \in DOMAIN reported}
             \cup (IF pc \in {"except", "crashed"} THEN {idx} ELSE {})

AtMostOncePerStage ==
    \A k \in DOMAIN files_to_process :
        CallsOf(llm_calls, k) \in {<<>>, <<"analysis">>, <<"analysis", "modernization">>}

NoCallAfterFailure ==
    \A k \in Failed : CallsOf(llm_calls', k) = CallsOf(llm_calls, k)

\* C23: no automatic retry: for one file the model is called at most once for
\* the analysis and at most once for the modernization, and once the pipeline
\* of a file has failed no further call is made for that file.
C23_NoRetry == [](AtMostOncePerStage) /\ [][NoCallAfterFailure]_vars

\* a file whose analysis failed after its one call, and the loop went on
C23_Witness ==
    /\ pc = "done"
    /\ Len(files_to_process) = 2
    /\ 1 \in Failed
    /\ CallsOf(llm_calls, 1) = <<"analysis">>
    /\ CallsOf(llm_calls, 2) = <<"analysis", "modernization">>
    /\ 2 \in Failed


\* the positions whose pipeline is over: stored or reported
Over == {stored[n] : n \in DOMAIN stored} \cup {reported[n][1] : n \in DOMAIN reported}

\* C24: the files are processed one after the other in the order of the input:
\* the pipeline of file i+1 starts only when that of file i has succeeded or
\* failed, and the results are at every point, in order, the files attempted
\* so far whose pipeline succeeded.
C24_Sequential ==
    /\ attempted = 1..idx
    /\ Over = IF pc \in {"loop", "done"} THEN 1..idx ELSE 1..(idx - 1)
    /\ \A n \in DOMAIN stored : \A r \in DOMAIN reported : stored[n] # reported[r][1]
    /\ Len(all_results) = Len(stored)
    /\ \A n \in DOMAIN stored, o \in DOMAIN stored : n < o => stored[n] < stored[o]
    /\ \A n \in DOMAIN stored :
          /\ stored[n] \in stages_ok
          /\ all_results[n].original_filename = files_to_process[stored[n]].filename
          /\ all_results[n].folder = files_to_process[stored[n]].folder
    /\ \A k \in stages_ok : k \in Over \/ (k = idx /\ pc = "store")

\* two different files given, the first failed: the results are the second alone
C24_Witness ==
    /\ pc = "done"
    /\ Len(files_to_process) = 2
    /\ files_to_process[1].filename # files_to_process[2].filename
    /\ stored = <<2>>
    /\ Len(reported) = 1 /\ reported[1][1] = 1
    /\ Len(all_results) = 1


\* the folder of the collections a result was stored under (lines 386-389)
ResultBase(result) == IF result.folder # "" THEN result.folder ELSE "root"

\* the documents of the n-th result are still those stored for its file
OwnDocumentsKept(n) ==
    LET result == all_results[n]
        docs == ResultBase(result) \o "/docs/"
    IN  /\ (docs \o "MASTER_DOCUMENTATION.md") \in DOMAIN documentation_files
        /\ documentation_files[docs \o "MASTER_DOCUMENTATION.md"].of = stored[n]
        /\ \A name \in result.modular_documentation :
              /\ (docs \o name) \in DOMAIN documentation_files
              /\ documentation_files[docs \o name].of = stored[n]

\* C25: after a batch run the documentation mapping still holds, for every
\* successfully processed file, that file's own master document and its own
\* modular documents, whatever the folders and the names of the files.
C25_OwnDocumentsKept ==
    pc = "done" => \A n \in DOMAIN all_results : OwnDocumentsKept(n)

\* the same, for the runs whose successful files lie in different folders
C25_DistinctFolders ==
    (/\ pc = "done"
     /\ \A n \in DOMAIN all_results, o \in DOMAIN all_results :
           n # o => ResultBase(all_results[n]) # ResultBase(all_results[o]))
    => \A n \in DOMAIN all_results : OwnDocumentsKept(n)


\* the links INDEX.md gives for the n-th result
IndexLinks(n) == documentation_files["INDEX.md"].links[n]

\* the links of the n-th result name produced paths, and the technical debt
\* document is linked exactly when the file has one
LinksResolve(n) ==
    LET result == all_results[n]
        debt == ResultBase(result) \o "/docs/TECHNICAL_DEBT.md"
    IN  /\ IndexLinks(n).documentation \subseteq DOMAIN documentation_files
        /\ IndexLinks(n).modernized \in DOMAIN modernized_files
        /\ (\E link \in IndexLinks(n).documentation :
               Occurs(link, "TECHNICAL_DEBT.md"))
           <=> (/\ "TECHNICAL_DEBT.md" \in result.modular_documentation
                /\ debt \in DOMAIN documentation_files)

\* C26: every documentation link and modernized-code link of INDEX.md names
\* a key of the produced mappings, for files in a folder and for root-level
\* files, and TECHNICAL_DEBT.md is linked if and only if the file has it.
C26_IndexLinksResolve ==
    (pc = "done" /\ "INDEX.md" \in DOMAIN documentation_files)
    => \A n \in DOMAIN all_results : LinksResolve(n)

\* the same, for the results of files inside a folder
C26_InFolders ==
    (pc = "done" /\ "INDEX.md" \in DOMAIN documentation_files)
    => \A n \in DOMAIN all_results : all_results[n].folder # "" => LinksResolve(n)


\* the positions the entries of the collections were written for
WrittenFor ==
    {documentation_files[p].of : p \in DOMAIN documentation_files}
    \cup {modernized_files[p].of : p \in DOMAIN modernized_files}

\* the collections are touched by the store step of a file whose stages have
\* all succeeded, and by the index written after the loop, and by nothing else
OnlyCompleteFilesAdd ==
    (storeVars' # storeVars)
    => \/ pc = "store" /\ idx \in stages_ok /\ error = "" /\ pc' = "loop"
       \/ pc = "loop" /\ pc' = "done"

\* nothing in the collections belongs to a file that was reported as failed
NothingOfFailedFiles ==
    /\ Len(all_results) = Len(stored)
    /\ WrittenFor \subseteq {stored[n] : n \in DOMAIN stored} \cup {0}
    /\ \A r \in DOMAIN reported :
          /\ reported[r][1] \notin WrittenFor
          /\ reported[r][1] \notin {stored[n] : n \in DOMAIN stored}

\* C27: a file whose pipeline fails at any stage leaves the results list, the
\* modernized-files mapping and the documentation-files mapping as they were
\* before it; only a file that completes all stages adds entries.
C27_FailureLeavesCollections ==
    [](NothingOfFailedFiles) /\ [][OnlyCompleteFilesAdd]_vars

\* a file has failed after another was stored, and the collections hold the
\* entries of the stored one
C27_Witness ==
    /\ pc = "loop"
    /\ stored = <<1>>
    /\ Len(reported) = 1 /\ reported[1][1] = 2
    /\ Len(all_results) = 1
    /\ WrittenFor = {1}


\* the ProjectIR objects generate_structured_analysis can return
ValidatedIRs ==
    {structured_analysis(response).ir :
        response \in {r \in AnalysisResponses : structured_analysis(r).status = "ok"}}

\* the values modernize_code can return
ParsedResults ==
    {parse_modernization_response(response).result :
        response \in {r \in ModernizationResponses :
                         parse_modernization_response(r).status = "ok"}}

\* where the file of this iteration stands, and what the stage it has reached
\* was given
StagesInOrder ==
    /\ pc = "analysis" => CallsOf(llm_calls, idx) = <<>>
    /\ pc \in {"skeleton", "modernize"} =>
          /\ CallsOf(llm_calls, idx) = <<"analysis">>
          /\ project_ir \in ValidatedIRs
          /\ modernization_result = NoLocal
    /\ pc \in {"docs", "store"} =>
          /\ CallsOf(llm_calls, idx) = <<"analysis", "modernization">>
          /\ project_ir \in ValidatedIRs
          /\ modernization_result \in ParsedResults
    /\ comprehensive_docs # NoDocs =>
          /\ pc \in {"store", "loop", "done"}
          /\ idx \in stages_ok
          /\ project_ir \in ValidatedIRs
          /\ modernization_result \in ParsedResults
          /\ modernization_result.t = "obj"
          /\ comprehensive_docs.modular_docs = ModularDocNames(project_ir)

\* a model call for modernization follows the validated analysis of the same
\* file, and the documents are rendered from a validated IR and a parsed result
StageStep ==
    /\ llm_calls' # llm_calls /\ pc = "modernize" =>
          /\ project_ir \in ValidatedIRs
          /\ CallsOf(llm_calls, idx) = <<"analysis">>
    /\ comprehensive_docs' # comprehensive_docs /\ pc = "docs" =>
          /\ project_ir \in ValidatedIRs
          /\ modernization_result \in ParsedResults
          /\ idx \notin stages_ok

\* C29: within one file's pipeline the stages run in the order analysis,
\* modernization, documentation, each at most once; the modernization call is
\* made only with a schema-validated ProjectIR, and the documents are rendered
\* only from a validated ProjectIR and a returned modernization result.
C29_StageOrder == [](StagesInOrder) /\ [][StageStep]_vars

\* the documents of a file have been rendered from its validated IR and its
\* parsed modernization result
C29_Witness ==
    /\ pc = "store"
    /\ comprehensive_docs # NoDocs
    /\ project_ir \in ValidatedIRs
    /\ modernization_result \in ParsedResults
    /\ CallsOf(llm_calls, idx) = <<"analysis", "modernization">>


(***************************************************************************)
(* Further claims about the renderers (checked under SpecRender).          *)
(***************************************************************************)
\* a language none of the renderers has a branch for
UnknownLanguage == "cobol"

\* source texts holding what the heuristic rows of the comparison table look for
HeuristicProbes == {"print(1)", "new Vector()", "var x = 1"}

VersionKnown(lang) == get_modern_version(lang) # "Modern " \o lang

NamingKnown(lang) == NamingConventions(lang) # NamingConventions(UnknownLanguage)

FolderKnown(ir) ==
    generate_folder_structure(ir)
        # generate_folder_structure([ir EXCEPT !.language = UnknownLanguage])

GuideKnown(ir) ==
    generate_execution_guide(ir)
        # generate_execution_guide([ir EXCEPT !.language = UnknownLanguage])

HeuristicKnown(lang) ==
    \E original \in HeuristicProbes :
        HeuristicRow(lang, original) # HeuristicRow(UnknownLanguage, original)

\* which of the five language-keyed renderers have a branch for the language
KnownTo(ir) ==
    [version |-> VersionKnown(ir.language),
     naming |-> NamingKnown(ir.language),
     folders |-> FolderKnown(ir),
     guide |-> GuideKnown(ir),
     heuristic |-> HeuristicKnown(ir.language)]

\* C30: the language-keyed renderers agree on the recognised languages: the
\* target-version lookup, the naming conventions, the folder structure, the
\* execution guide and the heuristic row of the comparison table all treat
\* the language of the IR as a known one, or all fall back to the generic.
C30_LanguagesAgree ==
    Documented =>
        \E known \in BOOLEAN :
            KnownTo(render_ir) = [version |-> known, naming |-> known, folders |-> known,
                                  guide |-> known, heuristic |-> known]

\* the same, for the three languages every renderer has a branch for
C30_CommonLanguages ==
    (Documented /\ render_ir.language \in {"python", "java", "javascript"}) =>
        KnownTo(render_ir) = [version |-> TRUE, naming |-> TRUE, folders |-> TRUE,
                              guide |-> TRUE, heuristic |-> TRUE]

====
